---- MODULE Spec2Model ----
(***************************************************************************)
(* A model of the Merkle Mountain Range of verushash/dependencies.go       *)
(* (mmr.h): the chunked layer, the mountain range (Add, Truncate,          *)
(* GetNode), the mountain view (CalcPeaks, GetRoot, GetProof, resize) and  *)
(* the replay of a branch (SafeCheck).                                     *)
(*                                                                         *)
(* Hashes are symbolic.  The hash writer is collision free, so the hash of *)
(* a pair is the pair itself: the null hash is the empty tuple, a leaf     *)
(* content hash is a 1-tuple <<n>>, and the hash of (l, r) is <<l, r>>.    *)
(* A caller may append any 256-bit value as a leaf, a value that is the    *)
(* hash of a pair included.                                                *)
(***************************************************************************)
EXTENDS Integers, Sequences, FiniteSets, TLC

VARIABLES
    layer0,      \* CMerkleMountainRange::layer0, a CChunkedLayer
    upperNodes,  \* CMerkleMountainRange::upperNodes, a vector of CChunkedLayer
    leaves,      \* history: the leaves the caller has appended and not truncated
    mmv,         \* one CMerkleMountainView over the range (live, sizes, peaks, peakMerkle)
    lastOp,      \* the last call made: its name, argument, return value, and for
                 \* GetProof the caller's CMMRProof (its proofSequence) afterwards
    truncs,      \* history: how many times Truncate was called
    chk          \* a branch handed to SafeCheck, and what SafeCheck returned

vars == <<layer0, upperNodes, leaves, mmv, lastOp, truncs, chk>>

(***************************************************************************)
(* Bounds of the model.                                                    *)
(***************************************************************************)
\* most leaves the range holds
MaxLeaves == 7
\* most calls of Truncate (a layer truncated across a chunk keeps growing)
MaxTruncates == 2
\* most siblings of a branch handed to SafeCheck directly
MaxBranchLen == 3
\* most leaves of a range that is truncated under a view
MaxSharedLeaves == 3
\* most branches a serialized proof holds
MaxStreamBranches == 2
\* the largest number of siblings of each of two branches that are concatenated
MaxConcatLen == 2
\* the largest number of leaves of the range whose proofs are compared entry
\* by entry
MaxProofLeaves == 7
\* the width in bits of each half of a power node's power: stake in the high
\* half, work in the low half (128 bits each in a uint256)
PowerHalfBits == 3

\* the threads that call the wrapper object
MaxThreads == 2

\* the calls each thread makes
MaxCalls == 2

\* the longest serialized input, in units
MaxHeaderBytes == 4

\* the largest unit of an input
MaxByte == 2
\* The template parameter CHUNK_SHIFT of CChunkedLayer.  The source's default
\* is 9 (chunks of 512 nodes); the layer's code is the same for every value,
\* and the model instantiates it small so that a layer of a few nodes spans
\* several chunks.
CHUNK_SHIFT == 1

(***************************************************************************)
(* Hashes and nodes.                                                       *)
(***************************************************************************)
\* uint256(): the null hash
NullHash == <<>>

\* HASHALGOWRITER: hw << l; hw << r; hw.GetHash()
Hash(l, r) == <<l, r>>

\* the content hashes a caller appends: a plain one, and one that is itself
\* the hash of a pair (of two leaves with the plain one)
LeafHashes == {<<1>>, Hash(<<1>>, <<1>>)}

\* CMMRNode(uint256 Hash)
CMMRNode(h) == [hash |-> h]

\* CMMRNode(): NODE_TYPE(), the default-constructed node
DefaultNode == CMMRNode(NullHash)

\* what an expression evaluates to when CChunkedLayer::operator[] throws
LengthError == [hash |-> <<0, 0, 0>>]

\* 2^n
RECURSIVE Pow2(_)
Pow2(n) == IF n = 0 THEN 1 ELSE 2 * Pow2(n - 1)

\* 2^w, w the width of half a power
PowerHalf == Pow2(PowerHalfBits)

\* x << 128 and x >> 128 on arith_uint256, which keeps 2w bits
ShiftLeftHalf(x) == (x * PowerHalf) % (PowerHalf * PowerHalf)
ShiftRightHalf(x) == x \div PowerHalf

\* a | b on arith_uint256
RECURSIVE BitOr(_, _)
BitOr(a, b) ==
    IF a = 0 THEN b
    ELSE IF b = 0 THEN a
    ELSE (IF a % 2 = 1 \/ b % 2 = 1 THEN 1 ELSE 0) + 2 * BitOr(a \div 2, b \div 2)

\* a uint256 that holds the number n, as a value that is hashed
Uint256(n) == <<n>>

\* CMMRPowerNode(Hash, Power)
CMMRPowerNode(h, power) == [hash |-> h, power |-> power]

\* CMMRPowerNode::Work, CMMRPowerNode::Stake
Work(node) == ShiftRightHalf(ShiftLeftHalf(node.power))
Stake(node) == ShiftRightHalf(node.power)

\* CreateParentNode of power nodes without the assert, the sums packed as they are
PowerCreateParentNode_Unchecked(nLeft, nRight) ==
    LET work == Work(nLeft) + Work(nRight)
        stake == Stake(nLeft) + Stake(nRight)
        nodePower == BitOr(ShiftLeftHalf(stake), work)
        preHash == Hash(nLeft.hash, nRight.hash)
    IN [node |-> CMMRPowerNode(Hash(preHash, Uint256(nodePower)), nodePower),
        aborted |-> FALSE]

\* CMMRPowerNode::CreateParentNode: the parent, and whether the assert failed
PowerCreateParentNode(nLeft, nRight) ==
    LET work == Work(nLeft) + Work(nRight)
        stake == Stake(nLeft) + Stake(nRight)
        nodePower == BitOr(ShiftLeftHalf(stake), work)
        preHash == Hash(nLeft.hash, nRight.hash)
    IN [node |-> CMMRPowerNode(Hash(preHash, Uint256(nodePower)), nodePower),
        aborted |-> ~(/\ ShiftRightHalf(ShiftLeftHalf(work)) = work
                      /\ ShiftRightHalf(ShiftLeftHalf(stake)) = stake)]

\* NODE_TYPE is CMMRPowerNode rather than CMMRNode
IsPowerNode(node) == "power" \in DOMAIN node

\* NODE_TYPE::CreateParentNode: this is the left node, nRight the right one
CreateParentNode(nLeft, nRight) ==
    IF IsPowerNode(nLeft)
    THEN PowerCreateParentNode(nLeft, nRight).node
    ELSE CMMRNode(Hash(nLeft.hash, nRight.hash))

\* NODE_TYPE::GetProofHash: the hash of a plain node; the hash of a power
\* node and its power combined with that of the node being proven
GetProofHash(node, opposite) ==
    IF IsPowerNode(node)
    THEN <<node.hash,
           Uint256(BitOr(ShiftLeftHalf(Stake(node) + Stake(opposite)),
                         Work(node) + Work(opposite)))>>
    ELSE <<node.hash>>

\* NODE_TYPE::GetLeafHash: nothing for a plain node, the power of a power node
GetLeafHash(node) == IF IsPowerNode(node) THEN <<Uint256(node.power)>> ELSE <<>>

\* CMMRNode::GetExtraHashCount
GetExtraHashCount == 0

(***************************************************************************)
(* CChunkedLayer: vSize and a vector of chunks.                            *)
(***************************************************************************)
\* CChunkedLayer::chunkSize
chunkSize == Pow2(CHUNK_SHIFT)

\* CChunkedLayer::chunkMask, used as idx & chunkMask()
chunkMask(idx) == idx % chunkSize

\* CChunkedLayer()
CChunkedLayer == [vSize |-> 0, nodes |-> <<>>]

\* CChunkedLayer::size
LayerSize(L) == L.vSize

\* CChunkedLayer::operator[]
LayerAt(L, idx) ==
    IF idx < L.vSize
    THEN LET c == (idx \div chunkSize) + 1
             o == chunkMask(idx) + 1
         IN IF c <= Len(L.nodes) /\ o <= Len(L.nodes[c])
            THEN L.nodes[c][o]
            ELSE LengthError
    ELSE LengthError

\* CChunkedLayer::push_back
push_back(L, node) ==
    LET v == L.vSize + 1
        ns == IF chunkMask(v) = 1 THEN Append(L.nodes, <<>>) ELSE L.nodes
    IN [vSize |-> v,
        nodes |-> [ns EXCEPT ![Len(ns)] = Append(@, node)]]

\* std::vector::resize: cut, or fill with default-constructed elements
VectorResize(s, n, dflt) == [i \in 1..n |-> IF i <= Len(s) THEN s[i] ELSE dflt]

\* the loop of CChunkedLayer::resize, from chunk count i up to chunksSize:
\* every pass resizes nodes.back()
RECURSIVE ResizeLoop(_, _, _, _)
ResizeLoop(ns, i, chunksSize, newSize) ==
    IF i <= chunksSize
    THEN LET backLen == IF i < chunksSize
                        THEN chunkSize
                        ELSE chunkMask(newSize - 1) + 1
         IN ResizeLoop([ns EXCEPT ![Len(ns)] = VectorResize(@, backLen, DefaultNode)],
                       i + 1, chunksSize, newSize)
    ELSE ns

\* CChunkedLayer::resize
LayerResize(L, newSize) ==
    IF newSize = 0
    THEN CChunkedLayer
    ELSE LET chunksSize == ((newSize - 1) \div chunkSize) + 1
             ns0 == VectorResize(L.nodes, chunksSize, <<>>)
             first == IF L.vSize # 0 THEN ((L.vSize - 1) \div chunkSize) + 1 ELSE 1
             ns1 == ResizeLoop(ns0, first, chunksSize, newSize)
         IN [vSize |-> ((Len(ns1) - 1) * chunkSize) + chunkMask(newSize - 1) + 1,
             nodes |-> ns1]

(***************************************************************************)
(* CMerkleMountainRange.                                                   *)
(***************************************************************************)
\* a range as a value: its two members
MMR == [layer0 |-> layer0, upperNodes |-> upperNodes]

\* CMerkleMountainRange()
EmptyMMR == [layer0 |-> CChunkedLayer, upperNodes |-> <<>>]

\* CMerkleMountainRange::size
MMRSize(m) == LayerSize(m.layer0)

\* a height that counts the interior layers only
MMRHeight_InteriorOnly(m) == Len(m.upperNodes)

\* CMerkleMountainRange::height
MMRHeight(m) == IF LayerSize(m.layer0) # 0 THEN Len(m.upperNodes) + 1 ELSE 0

\* the for loop of CMerkleMountainRange::Add; upperNodes[height] is up[height + 1]
RECURSIVE AddLoop(_, _, _, _)
AddLoop(up, l0, height, layerSize) ==
    IF height <= Len(up) /\ layerSize > 1
    THEN LET newSizeAbove == layerSize \div 2
             up1 == IF height = Len(up) THEN Append(up, CChunkedLayer) ELSE up
             curSizeAbove == LayerSize(up1[height + 1])
             idx == layerSize - 2
             below == IF height # 0 THEN up1[height] ELSE l0
             up2 == IF layerSize % 2 = 0 /\ newSizeAbove > curSizeAbove
                    THEN [up1 EXCEPT ![height + 1] =
                             push_back(@, CreateParentNode(LayerAt(below, idx),
                                                           LayerAt(below, idx + 1)))]
                    ELSE up1
         IN AddLoop(up2, l0, height + 1, newSizeAbove)
    ELSE up

\* Add returning the new size instead of the new leaf's index
MMRAdd_ReturnsSize(m, leaf) ==
    LET l0 == push_back(m.layer0, leaf)
    IN [mmr |-> [layer0 |-> l0,
                 upperNodes |-> AddLoop(m.upperNodes, l0, 0, LayerSize(l0))],
        ret |-> LayerSize(l0)]

\* CMerkleMountainRange::Add: the range after the call, and the index returned
MMRAdd(m, leaf) ==
    LET l0 == push_back(m.layer0, leaf)
    IN [mmr |-> [layer0 |-> l0,
                 upperNodes |-> AddLoop(m.upperNodes, l0, 0, LayerSize(l0))],
        ret |-> LayerSize(l0) - 1]

\* GetNode with the bound of the index off by one
GetNode_IndexInclusive(m, Height, Index) ==
    LET layers == MMRHeight(m)
    IN IF Height < layers
       THEN IF Height # 0
            THEN IF Index <= LayerSize(m.upperNodes[Height])
                 THEN LayerAt(m.upperNodes[Height], Index)
                 ELSE DefaultNode
            ELSE IF Index <= LayerSize(m.layer0)
                 THEN LayerAt(m.layer0, Index)
                 ELSE DefaultNode
       ELSE DefaultNode

\* CMerkleMountainRange::GetNode
GetNode(m, Height, Index) ==
    LET layers == MMRHeight(m)
    IN IF Height < layers
       THEN IF Height # 0
            THEN IF Index < LayerSize(m.upperNodes[Height])
                 THEN LayerAt(m.upperNodes[Height], Index)
                 ELSE DefaultNode
            ELSE IF Index < LayerSize(m.layer0)
                 THEN LayerAt(m.layer0, Index)
                 ELSE DefaultNode
       ELSE DefaultNode

\* a halving sequence that goes one step further, down to 0
RECURSIVE Halvings_DownToZero(_)
Halvings_DownToZero(n) == IF n = 0 THEN <<0>> ELSE <<n>> \o Halvings_DownToZero(n \div 2)

\* the halving sequence newSize, newSize >> 1, ... down to 1 (or just <<0>>)
RECURSIVE Halvings(_)
Halvings(n) == IF n \div 2 = 0 THEN <<n>> ELSE <<n>> \o Halvings(n \div 2)

\* a Truncate that cuts the leaf layer and leaves the interior layers alone
MMRTruncate_LeafLayerOnly(m, newSize) ==
    LET curSize == MMRSize(m)
    IN IF newSize < curSize
       THEN [layer0 |-> LayerResize(m.layer0, Halvings(newSize)[1]),
             upperNodes |-> m.upperNodes]
       ELSE m

\* CMerkleMountainRange::Truncate
MMRTruncate(m, newSize) ==
    LET curSize == MMRSize(m)
    IN IF newSize < curSize
       THEN LET sizes == Halvings(newSize)
                up0 == VectorResize(m.upperNodes, Len(sizes) - 1, CChunkedLayer)
            IN [layer0 |-> LayerResize(m.layer0, sizes[1]),
                upperNodes |-> [i \in 1..Len(up0) |-> LayerResize(up0[i], sizes[i + 1])]]
       ELSE m

(***************************************************************************)
(* CMerkleMountainView.  A view is [live, sizes, peaks, peakMerkle]; the   *)
(* range it refers to (its member mmr) is passed as m.                     *)
(***************************************************************************)
\* the value of x - 1 in uint64_t when x is 0: an index no layer reaches
UINT64_MAX == 2147483647

\* sizes[ht] - 1 in uint64_t
Dec64(x) == IF x = 0 THEN UINT64_MAX ELSE x - 1

\* what an expression evaluates to when a std::vector is indexed out of range
Undefined == [hash |-> <<0, 0, 0, 0>>]

\* s[i] of a std::vector, i counted from 0
VecAt(s, i) == IF i >= 0 /\ i < Len(s) THEN s[i + 1] ELSE Undefined

\* no view constructed yet
NoView == [live |-> FALSE, sizes |-> <<>>, peaks |-> <<>>, peakMerkle |-> <<>>]

\* a view constructed with the size asked for, not limited to the range
CMerkleMountainView_Unclamped(m, viewSize) ==
    LET maxSize == MMRSize(m)
        vs == IF viewSize = 0 THEN maxSize ELSE viewSize
    IN [live |-> TRUE, sizes |-> Halvings(vs), peaks |-> <<>>, peakMerkle |-> <<>>]

\* CMerkleMountainView::CMerkleMountainView(mountainRange, viewSize)
CMerkleMountainView(m, viewSize) ==
    LET maxSize == MMRSize(m)
        vs == IF viewSize > maxSize \/ viewSize = 0 THEN maxSize ELSE viewSize
    IN [live |-> TRUE, sizes |-> Halvings(vs), peaks |-> <<>>, peakMerkle |-> <<>>]

\* CMerkleMountainView::CMerkleMountainView(mountainView, viewSize), m the
\* range mountainView.mmr refers to; with viewSize left at its default of 0
\* this is the copy constructor
CMerkleMountainViewCopy(mountainView, m, viewSize) ==
    LET maxSize == MMRSize(m)
        vs == IF viewSize > maxSize \/ viewSize = 0 THEN maxSize ELSE viewSize
    IN [live |-> TRUE, sizes |-> Halvings(vs), peaks |-> <<>>, peakMerkle |-> <<>>]

\* CMerkleMountainView::size
ViewSize(v) == IF Len(v.sizes) = 0 THEN 0 ELSE v.sizes[1]

\* the test of CalcPeaks for height ht (from 0): the top, or the layer above
\* is smaller than half of this one, rounded up
IsPeakHeight(sizes, ht) ==
    \/ ht = Len(sizes) - 1
    \/ sizes[ht + 2] < ((sizes[ht + 1] + 1) \div 2)

\* the loop of CalcPeaks with each peak pushed at the back
RECURSIVE CalcPeaksLoop_PushesBack(_, _, _, _)
CalcPeaksLoop_PushesBack(m, sizes, ht, peaks) ==
    IF ht < Len(sizes)
    THEN CalcPeaksLoop_PushesBack(m, sizes, ht + 1,
              IF IsPeakHeight(sizes, ht)
              THEN peaks \o <<GetNode(m, ht, Dec64(sizes[ht + 1]))>>
              ELSE peaks)
    ELSE peaks

\* the for loop of CalcPeaks from height ht on: peaks.insert(peaks.begin(), ...)
RECURSIVE CalcPeaksLoop(_, _, _, _)
CalcPeaksLoop(m, sizes, ht, peaks) ==
    IF ht < Len(sizes)
    THEN CalcPeaksLoop(m, sizes, ht + 1,
              IF IsPeakHeight(sizes, ht)
              THEN <<GetNode(m, ht, Dec64(sizes[ht + 1]))>> \o peaks
              ELSE peaks)
    ELSE peaks

\* CMerkleMountainView::CalcPeaks
CalcPeaks(v, m, force) ==
    IF force \/ (Len(v.peaks) = 0 /\ ViewSize(v) # 0)
    THEN [v EXCEPT !.peaks = CalcPeaksLoop(m, v.sizes, 0, <<>>),
                   !.peakMerkle = <<>>]
    ELSE v

\* the nodes of the range CalcPeaks reads, as <<height, index>>
CalcPeaksReads(v, force) ==
    IF force \/ (Len(v.peaks) = 0 /\ ViewSize(v) # 0)
    THEN {<<ht, Dec64(v.sizes[ht + 1])>> :
             ht \in {h \in 0..(Len(v.sizes) - 1) : IsPeakHeight(v.sizes, h)}}
    ELSE {}

\* CMerkleMountainView::resize: the view after the call (it returns size())
ViewResize(v, m, newSize) ==
    IF newSize # ViewSize(v)
    THEN LET maxSize == MMRSize(m)
             ns == IF newSize > maxSize THEN maxSize ELSE newSize
         IN [v EXCEPT !.sizes = Halvings(ns), !.peaks = <<>>, !.peakMerkle = <<>>]
    ELSE v

\* a layer of the peak merkle that hashes the odd element with itself
NextMerkleLayer_DuplicateAndHash(prev) ==
    LET layerSize == Len(prev)
    IN [i \in 1..(layerSize \div 2) |->
            CreateParentNode(VecAt(prev, 2 * (i - 1)), VecAt(prev, 2 * (i - 1) + 1))]
       \o (IF layerSize % 2 = 1
           THEN <<CreateParentNode(VecAt(prev, layerSize - 1), VecAt(prev, layerSize - 1))>>
           ELSE <<>>)

\* one layer of the peak merkle from the layer below it: the pairs, then the
\* end of the layer below passed through when its length is odd
NextMerkleLayer(prev) ==
    LET layerSize == Len(prev)
        passThrough == (layerSize % 2 = 1)
    IN [i \in 1..(layerSize \div 2) |->
            CreateParentNode(VecAt(prev, 2 * (i - 1)), VecAt(prev, 2 * (i - 1) + 1))]
       \o (IF passThrough THEN <<VecAt(prev, layerSize - 1)>> ELSE <<>>)

\* the for loop of GetRoot: layerNum counts the layers pushed so far
RECURSIVE GetRootLoop(_, _, _, _)
GetRootLoop(peaks, pm, layerNum, layerSize) ==
    IF layerNum = 0 \/ layerSize > 1
    THEN LET prev == IF layerNum # 0 THEN pm[layerNum] ELSE peaks
             layer == NextMerkleLayer(prev)
         IN GetRootLoop(peaks, Append(pm, layer), layerNum + 1, Len(layer))
    ELSE pm

\* a GetRoot that computes the peaks and the peak merkle at every call
GetRoot_Recomputes(v, m) ==
    IF ViewSize(v) > 0
    THEN LET v1 == CalcPeaks(v, m, TRUE)
             pm == GetRootLoop(v1.peaks, <<>>, 0, Len(v1.peaks))
         IN [view |-> [v1 EXCEPT !.peakMerkle = pm],
             root |-> VecAt(pm[Len(pm)], 0).hash]
    ELSE [view |-> v, root |-> NullHash]

\* CMerkleMountainView::GetRoot: the view after the call and the hash returned
GetRoot(v, m) ==
    IF ViewSize(v) > 0 /\ Len(v.peakMerkle) = 0
    THEN LET v1 == CalcPeaks(v, m, FALSE)
             pm == GetRootLoop(v1.peaks, <<>>, 0, Len(v1.peaks))
         IN [view |-> [v1 EXCEPT !.peakMerkle = pm],
             root |-> VecAt(pm[Len(pm)], 0).hash]
    ELSE IF Len(v.peakMerkle) > 0
         THEN [view |-> v, root |-> VecAt(v.peakMerkle[Len(v.peakMerkle)], 0).hash]
         ELSE [view |-> v, root |-> NullHash]

\* the nodes of the range GetRoot reads
GetRootReads(v) ==
    IF ViewSize(v) > 0 /\ Len(v.peakMerkle) = 0 THEN CalcPeaksReads(v, FALSE) ELSE {}

\* CMerkleMountainView::GetPeaks: the view after the call (it returns peaks)
GetPeaks(v, m) == CalcPeaks(v, m, FALSE)

(***************************************************************************)
(* CMerkleMountainView::GetProof.                                          *)
(***************************************************************************)
\* CMerkleBranchBase::BRANCH_TYPE
BRANCH_INVALID == 0
BRANCH_BTC == 1
BRANCH_MMRBLAKE_NODE == 2
BRANCH_MMRBLAKE_POWERNODE == 3
BRANCH_ETH == 4
BRANCH_MULTIPART == 5

\* CMerkleMountainView::GetBranchType(const CDefaultMMRNode &) and
\* GetBranchType(const CDefaultMMRPowerNode &)
GetBranchType(overload) ==
    IF IsPowerNode(overload) THEN BRANCH_MMRBLAKE_POWERNODE ELSE BRANCH_MMRBLAKE_NODE

\* CMMRBranch(type, size, i, b)
CMMRBranch(type, size, i, b) ==
    [branchType |-> type, nIndex |-> i, nSize |-> size, branch |-> b]

\* CMerkleBranch(i, b): a Bitcoin-style branch has no nSize
CMerkleBranch(i, b) == [branchType |-> BRANCH_BTC, nIndex |-> i, nSize |-> 0, branch |-> b]

\* the linear search of GetProof for the peak with hash peakHash, from p on:
\* the first index whose peak has that hash, or peaks.size()
RECURSIVE PeakSearch(_, _, _)
PeakSearch(peaks, peakHash, p) ==
    IF p < Len(peaks) /\ VecAt(peaks, p).hash # peakHash
    THEN PeakSearch(peaks, peakHash, p + 1)
    ELSE p

\* the walk of GetProof up the peak merkle, from position p of layer layerNum
\* (layer 0 is peaks, layer n > 0 is peakMerkle[n - 1]); the siblings collected
RECURSIVE PeakMerkleWalk(_, _, _, _, _)
PeakMerkleWalk(v, p, layerNum, layerSize, branch) ==
    IF layerNum = 0 \/ layerSize > 1
    THEN LET layer == IF layerNum # 0 THEN v.peakMerkle[layerNum] ELSE v.peaks
             b1 == IF (p < layerSize - 1) \/ (p % 2 = 1)
                   THEN IF p % 2 = 1
                        THEN branch \o GetProofHash(VecAt(layer, p - 1), VecAt(layer, p))
                        ELSE branch \o GetProofHash(VecAt(layer, p + 1), VecAt(layer, p))
                   ELSE branch
         IN PeakMerkleWalk(v, p \div 2, layerNum + 1,
                           Len(v.peakMerkle[layerNum + 1]), b1)
    ELSE branch

\* the for loop of GetProof up the mountain from position p of height l:
\* the walk up the mountain with the sizes of the range in place of the
\* sizes of the view
RECURSIVE MountainWalk_RangeSizes(_, _, _, _, _, _)
MountainWalk_RangeSizes(v, m, p, l, branch, reads) ==
    IF l < Len(v.sizes)
    THEN IF p % 2 = 1
         THEN MountainWalk_RangeSizes(v, m, p \div 2, l + 1,
                  branch \o GetProofHash(GetNode(m, l, p - 1), GetNode(m, l, p)),
                  reads \cup {<<l, p - 1>>, <<l, p>>})
         ELSE IF (IF l = 0 THEN LayerSize(m.layer0)
                  ELSE IF l <= Len(m.upperNodes) THEN LayerSize(m.upperNodes[l])
                  ELSE 0) > p + 1
              THEN MountainWalk_RangeSizes(v, m, p \div 2, l + 1,
                       branch \o GetProofHash(GetNode(m, l, p + 1), GetNode(m, l, p)),
                       reads \cup {<<l, p + 1>>, <<l, p>>})
              ELSE LET peakHash == GetNode(m, l, p).hash
                       pk == PeakSearch(v.peaks, peakHash, 0)
                   IN IF pk < Len(v.peaks)
                      THEN [branch |-> PeakMerkleWalk(v, pk, 0, Len(v.peaks), branch),
                            aborted |-> FALSE,
                            reads |-> reads \cup {<<l, p>>}]
                      ELSE [branch |-> branch, aborted |-> TRUE,
                            reads |-> reads \cup {<<l, p>>}]
    ELSE [branch |-> branch, aborted |-> FALSE, reads |-> reads]

\* the siblings collected, whether assert(p < peaks.size()) failed, and the
\* nodes of the range read
RECURSIVE MountainWalk(_, _, _, _, _, _)
MountainWalk(v, m, p, l, branch, reads) ==
    IF l < Len(v.sizes)
    THEN IF p % 2 = 1
         THEN MountainWalk(v, m, p \div 2, l + 1,
                  branch \o GetProofHash(GetNode(m, l, p - 1), GetNode(m, l, p)),
                  reads \cup {<<l, p - 1>>, <<l, p>>})
         ELSE IF v.sizes[l + 1] > p + 1
              THEN MountainWalk(v, m, p \div 2, l + 1,
                       branch \o GetProofHash(GetNode(m, l, p + 1), GetNode(m, l, p)),
                       reads \cup {<<l, p + 1>>, <<l, p>>})
              ELSE LET peakHash == GetNode(m, l, p).hash
                       pk == PeakSearch(v.peaks, peakHash, 0)
                   IN IF pk < Len(v.peaks)
                      THEN [branch |-> PeakMerkleWalk(v, pk, 0, Len(v.peaks), branch),
                            aborted |-> FALSE,
                            reads |-> reads \cup {<<l, p>>}]
                      ELSE [branch |-> branch, aborted |-> TRUE,
                            reads |-> reads \cup {<<l, p>>}]
    ELSE [branch |-> branch, aborted |-> FALSE, reads |-> reads]

\* the walk of GetProof up the peak merkle again, recording for each sibling
\* appended its side: 1 for layer[p - 1] (on the left), 0 for layer[p + 1]
RECURSIVE PeakMerkleSides(_, _, _, _, _)
PeakMerkleSides(v, p, layerNum, layerSize, sides) ==
    IF layerNum = 0 \/ layerSize > 1
    THEN LET s1 == IF (p < layerSize - 1) \/ (p % 2 = 1)
                   THEN IF p % 2 = 1 THEN Append(sides, 1) ELSE Append(sides, 0)
                   ELSE sides
         IN PeakMerkleSides(v, p \div 2, layerNum + 1,
                            Len(v.peakMerkle[layerNum + 1]), s1)
    ELSE sides

\* the walk of GetProof up the mountain again, recording for each sibling
\* appended its side: 1 for GetNode(l, p - 1) (on the left), 0 for GetNode(l, p + 1)
RECURSIVE MountainSides(_, _, _, _, _)
MountainSides(v, m, p, l, sides) ==
    IF l < Len(v.sizes)
    THEN IF p % 2 = 1
         THEN MountainSides(v, m, p \div 2, l + 1, Append(sides, 1))
         ELSE IF v.sizes[l + 1] > p + 1
              THEN MountainSides(v, m, p \div 2, l + 1, Append(sides, 0))
              ELSE LET pk == PeakSearch(v.peaks, GetNode(m, l, p).hash, 0)
                   IN IF pk < Len(v.peaks)
                      THEN PeakMerkleSides(v, pk, 0, Len(v.peaks), sides)
                      ELSE sides
    ELSE sides

\* CMMRProof::operator<<(const CMMRNodeBranch &): the branch is appended to
\* proofSequence
ProofAppend(proof, branch) == Append(proof, branch)

\* GetProof recording the size of the range, not of the view, in the branch
GetProof_RangeSize(v, m, proof, pos) ==
    IF pos < ViewSize(v)
    THEN LET r == GetRoot(v, m)
             v1 == r.view
             toAdd == GetLeafHash(LayerAt(m.layer0, pos))
             w == MountainWalk(v1, m, pos, 0, toAdd,
                               GetRootReads(v) \cup {<<0, pos>>})
             retBranch == CMMRBranch(GetBranchType(LayerAt(m.layer0, pos)),
                                     MMRSize(m), pos, w.branch)
         IN [view |-> v1,
             proof |-> IF w.aborted THEN proof ELSE ProofAppend(proof, retBranch),
             ret |-> TRUE, aborted |-> w.aborted, reads |-> w.reads]
    ELSE [view |-> v, proof |-> proof, ret |-> FALSE, aborted |-> FALSE, reads |-> {}]

\* GetProof that clears the memoized peak merkle before it refuses a position
GetProof_RefusalForgets(v, m, proof, pos) ==
    IF pos < ViewSize(v)
    THEN LET r == GetRoot(v, m)
             v1 == r.view
             toAdd == GetLeafHash(LayerAt(m.layer0, pos))
             w == MountainWalk(v1, m, pos, 0, toAdd,
                               GetRootReads(v) \cup {<<0, pos>>})
             retBranch == CMMRBranch(GetBranchType(LayerAt(m.layer0, pos)),
                                     ViewSize(v1), pos, w.branch)
         IN [view |-> v1,
             proof |-> IF w.aborted THEN proof ELSE ProofAppend(proof, retBranch),
             ret |-> TRUE, aborted |-> w.aborted, reads |-> w.reads]
    ELSE [view |-> [v EXCEPT !.peakMerkle = <<>>],
          proof |-> proof, ret |-> FALSE, aborted |-> FALSE, reads |-> {}]

\* CMerkleMountainView::GetProof: the view and the proof after the call, the
\* value returned, whether the call aborted on its assert, and the nodes read
GetProof(v, m, proof, pos) ==
    IF pos < ViewSize(v)
    THEN LET r == GetRoot(v, m)
             v1 == r.view
             toAdd == GetLeafHash(LayerAt(m.layer0, pos))
             w == MountainWalk(v1, m, pos, 0, toAdd,
                               GetRootReads(v) \cup {<<0, pos>>})
             retBranch == CMMRBranch(GetBranchType(LayerAt(m.layer0, pos)),
                                     ViewSize(v1), pos, w.branch)
         IN [view |-> v1,
             proof |-> IF w.aborted THEN proof ELSE ProofAppend(proof, retBranch),
             ret |-> TRUE, aborted |-> w.aborted, reads |-> w.reads]
    ELSE [view |-> v, proof |-> proof, ret |-> FALSE, aborted |-> FALSE, reads |-> {}]

(***************************************************************************)
(* GetProofBits, the proof index, and SafeCheck.                           *)
(***************************************************************************)
\* n zero bits: the slots of the extra hashes
ExtraBits(n) == [i \in 1..n |-> 0]

\* the peak loop of GetProofBits: PeakIndexes.insert(PeakIndexes.begin(), ht)
RECURSIVE PeakIndexesLoop(_, _, _)
PeakIndexesLoop(Sizes, ht, PeakIndexes) ==
    IF ht < Len(Sizes)
    THEN PeakIndexesLoop(Sizes, ht + 1,
              IF ht = Len(Sizes) - 1 \/ Sizes[ht + 1] % 2 = 1
              THEN <<ht>> \o PeakIndexes
              ELSE PeakIndexes)
    ELSE PeakIndexes

\* the peak merkle loop of GetProofBits: the sizes of the layers above the peaks
RECURSIVE MerkleSizesLoop(_, _, _)
MerkleSizesLoop(MerkleSizes, layerNum, layerSize) ==
    IF layerNum = 0 \/ layerSize > 1
    THEN LET passThrough == layerSize % 2
             ls == (layerSize \div 2) + passThrough
         IN MerkleSizesLoop(IF ls # 0 THEN Append(MerkleSizes, ls) ELSE MerkleSizes,
                            layerNum + 1, ls)
    ELSE MerkleSizes

\* the search of GetProofBits for height l among PeakIndexes
RECURSIVE PeakIndexSearch(_, _, _)
PeakIndexSearch(PeakIndexes, l, p) ==
    IF p < Len(PeakIndexes) /\ PeakIndexes[p + 1] # l
    THEN PeakIndexSearch(PeakIndexes, l, p + 1)
    ELSE p

\* the walk of GetProofBits up the peak merkle; layerNum counts from -1
RECURSIVE PeakBitsWalk(_, _, _, _, _, _)
PeakBitsWalk(MerkleSizes, p, layerNum, layerSize, Bits, extrahashes) ==
    IF layerNum = -1 \/ layerSize > 1
    THEN LET b1 == IF (p < layerSize - 1) \/ (p % 2 = 1)
                   THEN IF p % 2 = 1
                        THEN Bits \o <<1>> \o ExtraBits(extrahashes)
                        ELSE Bits \o <<0>> \o ExtraBits(extrahashes)
                   ELSE Bits
         IN PeakBitsWalk(MerkleSizes, p \div 2, layerNum + 1,
                         MerkleSizes[layerNum + 2], b1, extrahashes)
    ELSE Bits

\* the for loop of GetProofBits up the mountain
RECURSIVE BitsWalk(_, _, _, _, _, _, _)
BitsWalk(Sizes, PeakIndexes, MerkleSizes, p, l, Bits, extrahashes) ==
    IF l < Len(Sizes)
    THEN IF p % 2 = 1
         THEN BitsWalk(Sizes, PeakIndexes, MerkleSizes, p \div 2, l + 1,
                       Bits \o <<1>> \o ExtraBits(extrahashes), extrahashes)
         ELSE IF Sizes[l + 1] > p + 1
              THEN BitsWalk(Sizes, PeakIndexes, MerkleSizes, p \div 2, l + 1,
                            Bits \o <<0>> \o ExtraBits(extrahashes), extrahashes)
              ELSE PeakBitsWalk(MerkleSizes, PeakIndexSearch(PeakIndexes, l, 0), -1,
                                Len(PeakIndexes), Bits, extrahashes)
    ELSE Bits

\* CMerkleMountainView::GetProofBits, for a node type with extrahashes extra hashes
GetProofBits(pos, mmvSize, extrahashes) ==
    IF pos > 0 /\ pos < mmvSize
    THEN LET Sizes == Halvings(mmvSize)
             PeakIndexes == PeakIndexesLoop(Sizes, 0, <<>>)
             MerkleSizes == MerkleSizesLoop(<<>>, 0, Len(PeakIndexes))
         IN BitsWalk(Sizes, PeakIndexes, MerkleSizes, pos, 0,
                     ExtraBits(extrahashes), extrahashes)
    ELSE <<>>

\* the number whose binary digits, least significant first, are bits
RECURSIVE PackBits(_)
PackBits(bits) == IF Len(bits) = 0 THEN 0 ELSE bits[1] + 2 * PackBits(Tail(bits))

\* CMerkleBranchBase::GetMMRProofIndex: the index whose bits, from the least
\* significant, are the left/right decisions of GetProofBits
GetMMRProofIndex(pos, mmvSize, extrahashes) ==
    PackBits(GetProofBits(pos, mmvSize, extrahashes))

\* the loop of SafeCheck without the test for a sibling equal to the running hash
RECURSIVE SafeCheckLoop_NoCanonicalTest(_, _, _, _)
SafeCheckLoop_NoCanonicalTest(branch, i, index, hash) ==
    IF i <= Len(branch)
    THEN IF index % 2 = 1
         THEN SafeCheckLoop_NoCanonicalTest(branch, i + 1, index \div 2, Hash(branch[i], hash))
         ELSE SafeCheckLoop_NoCanonicalTest(branch, i + 1, index \div 2, Hash(hash, branch[i]))
    ELSE hash

\* the for loop of SafeCheck over the siblings from the i-th (from 1) on
RECURSIVE SafeCheckLoop(_, _, _, _)
SafeCheckLoop(branch, i, index, hash) ==
    IF i <= Len(branch)
    THEN IF index % 2 = 1
         THEN IF branch[i] = hash
              THEN NullHash
              ELSE SafeCheckLoop(branch, i + 1, index \div 2, Hash(branch[i], hash))
         ELSE SafeCheckLoop(branch, i + 1, index \div 2, Hash(hash, branch[i]))
    ELSE hash

\* CMMRBranch::SafeCheck
MMRBranchSafeCheck(b, hash) ==
    LET index == GetMMRProofIndex(b.nIndex, b.nSize, GetExtraHashCount)
    IN IF index = -1 THEN NullHash ELSE SafeCheckLoop(b.branch, 1, index, hash)

\* the largest uint32_t, the value of nIndex with all bits set; the model's
\* uint32_t is 16 bits wide, so that it stays below the model's UINT64_MAX
\* as 2^32 - 1 stays below 2^64 - 1
UINT32_MAX == 65535

\* CMerkleBranch::SafeCheck: nIndex is a uint32_t widened to int64_t
MerkleBranchSafeCheck(b, hash) ==
    LET index == b.nIndex
    IN IF index = -1 THEN NullHash ELSE SafeCheckLoop(b.branch, 1, index, hash)

(***************************************************************************)
(* The state machine: the calls a caller makes on one range, one view of   *)
(* it and one proof.                                                       *)
(***************************************************************************)
\* the record of a call
Call(name, arg, ret, aborted, reads) ==
    [name |-> name, arg |-> arg, ret |-> ret, aborted |-> aborted, reads |-> reads,
     proof |-> <<>>]

\* the proofs a caller hands to GetProof: CMMRProof(), and the proof of the
\* only leaf of a view of size 1
InputProofs == {<<>>, <<CMMRBranch(BRANCH_MMRBLAKE_NODE, 1, 0, <<>>)>>}

\* no branch handed to SafeCheck
NoCheck == [kind |-> "none", b |-> CMMRBranch(BRANCH_INVALID, 0, 0, <<>>),
            hash |-> NullHash, done |-> FALSE, result |-> NullHash]

\* CMerkleMountainRange(), no view
Init ==
    /\ layer0 = CChunkedLayer
    /\ upperNodes = <<>>
    /\ leaves = <<>>
    /\ mmv = NoView
    /\ lastOp = Call("Init", 0, 0, FALSE, {})
    /\ truncs = 0
    /\ chk = NoCheck

\* mmr.Add(leaf)
Add(leaf) ==
    /\ MMRSize(MMR) < MaxLeaves
    /\ LET r == MMRAdd(MMR, CMMRNode(leaf))
       IN /\ layer0' = r.mmr.layer0
          /\ upperNodes' = r.mmr.upperNodes
          /\ lastOp' = Call("Add", leaf, r.ret, FALSE, {})
    /\ leaves' = Append(leaves, leaf)
    /\ UNCHANGED <<mmv, truncs, chk>>

\* mmr.Truncate(newSize)
Truncate(newSize) ==
    /\ truncs < MaxTruncates
    /\ truncs' = truncs + 1
    /\ LET m == MMRTruncate(MMR, newSize)
       IN /\ layer0' = m.layer0
          /\ upperNodes' = m.upperNodes
    /\ leaves' = IF newSize < Len(leaves) THEN SubSeq(leaves, 1, newSize) ELSE leaves
    /\ lastOp' = Call("Truncate", newSize, 0, FALSE, {})
    /\ UNCHANGED <<mmv, chk>>

\* CMerkleMountainView mmv(mmr, viewSize)
NewView(viewSize) ==
    /\ mmv' = CMerkleMountainView(MMR, viewSize)
    /\ lastOp' = Call("NewView", viewSize, 0, FALSE, {})
    /\ UNCHANGED <<layer0, upperNodes, leaves, truncs, chk>>

\* CMerkleMountainView copy(mmv, viewSize), and the copy is the view used
\* from then on; viewSize 0 is the copy construction CMerkleMountainView copy(mmv)
CopyView(viewSize) ==
    /\ mmv.live
    /\ mmv' = CMerkleMountainViewCopy(mmv, MMR, viewSize)
    /\ lastOp' = Call("CopyView", [viewSize |-> viewSize, source |-> ViewSize(mmv)],
                      ViewSize(mmv'), FALSE, {})
    /\ UNCHANGED <<layer0, upperNodes, leaves, truncs, chk>>

\* mmv.resize(newSize)
Resize(newSize) ==
    /\ mmv.live
    /\ mmv' = ViewResize(mmv, MMR, newSize)
    /\ lastOp' = Call("resize", newSize, ViewSize(mmv'), FALSE, {})
    /\ UNCHANGED <<layer0, upperNodes, leaves, truncs, chk>>

\* mmv.CalcPeaks(force)
DoCalcPeaks(force) ==
    /\ mmv.live
    /\ mmv' = CalcPeaks(mmv, MMR, force)
    /\ lastOp' = Call("CalcPeaks", force, 0, FALSE, CalcPeaksReads(mmv, force))
    /\ UNCHANGED <<layer0, upperNodes, leaves, truncs, chk>>

\* mmv.GetPeaks()
DoGetPeaks ==
    /\ mmv.live
    /\ mmv' = GetPeaks(mmv, MMR)
    /\ lastOp' = Call("GetPeaks", 0, mmv'.peaks, FALSE, CalcPeaksReads(mmv, FALSE))
    /\ UNCHANGED <<layer0, upperNodes, leaves, truncs, chk>>

\* mmv.GetRoot()
DoGetRoot ==
    /\ mmv.live
    /\ LET r == GetRoot(mmv, MMR)
       IN /\ mmv' = r.view
          /\ lastOp' = Call("GetRoot", 0, r.root, FALSE, GetRootReads(mmv))
    /\ UNCHANGED <<layer0, upperNodes, leaves, truncs, chk>>

\* mmv.GetProof(retProof, pos)
DoGetProof(retProof, pos) ==
    /\ mmv.live
    /\ LET r == GetProof(mmv, MMR, retProof, pos)
       IN /\ mmv' = r.view
          /\ lastOp' = [Call("GetProof", [proof |-> retProof, pos |-> pos],
                             r.ret, r.aborted, r.reads) EXCEPT !.proof = r.proof]
    /\ UNCHANGED <<layer0, upperNodes, leaves, truncs, chk>>

\* mmr.GetNode(Height, Index)
DoGetNode(Height, Index) ==
    /\ lastOp' = Call("GetNode", [Height |-> Height, Index |-> Index],
                      GetNode(MMR, Height, Index), FALSE, {})
    /\ UNCHANGED <<layer0, upperNodes, leaves, mmv, truncs, chk>>

\* the heights and indexes GetNode is called with: inside the range, past
\* its end, and the largest uint64_t
GetNodeHeights == {0, 1, 3}
GetNodeIndexes == {0, 2, UINT64_MAX}

\* the calls on the view and the proof
ViewCalls(maxArg) ==
    \/ \E n \in 0..maxArg : NewView(n)
    \/ \E n \in 0..maxArg : Resize(n)
    \/ \E force \in BOOLEAN : DoCalcPeaks(force)
    \/ DoGetPeaks
    \/ DoGetRoot
    \/ \E retProof \in InputProofs, pos \in 0..maxArg : DoGetProof(retProof, pos)

\* the calls on the view of a range of up to MaxLeaves leaves
ViewNext == ViewCalls(MaxLeaves)

Next ==
    \/ \E leaf \in LeafHashes : Add(leaf)
    \/ \E n \in 0..MaxLeaves : Truncate(n)
    \/ \E h \in GetNodeHeights, i \in GetNodeIndexes : DoGetNode(h, i)
    \/ ViewNext

Spec == Init /\ [][Next]_vars

\* the range alone: Add and Truncate
NextMMR ==
    \/ \E leaf \in LeafHashes : Add(leaf)
    \/ \E n \in 0..MaxLeaves : Truncate(n)
    \/ \E h \in GetNodeHeights, i \in GetNodeIndexes : DoGetNode(h, i)

SpecMMR == Init /\ [][NextMMR]_vars

\* a range that only grows, and its view
NextAppend ==
    \/ \E leaf \in LeafHashes : Add(leaf)
    \/ ViewNext

SpecAppend == Init /\ [][NextAppend]_vars

\* a range that grows while views of it are constructed and copied
NextCopy ==
    \/ \E leaf \in LeafHashes : Add(leaf)
    \/ \E n \in 0..MaxLeaves : NewView(n)
    \/ \E n \in 0..MaxLeaves : CopyView(n)

SpecCopy == Init /\ [][NextCopy]_vars

(***************************************************************************)
(* A range of plain nodes or of power nodes (the two NODE_TYPEs the        *)
(* templates are instantiated with), a view of it and proofs from it.      *)
(***************************************************************************)
\* a power node with stake 1 and work 1
UnitPowerNode(h) == CMMRPowerNode(h, PowerHalf + 1)

\* the leaves appended: for each node type a leaf with a plain hash and a
\* leaf whose hash is the hash of the parent of two of the former
ProofLeaves ==
    {CMMRNode(<<1>>),
     CMMRNode(CreateParentNode(CMMRNode(<<1>>), CMMRNode(<<1>>)).hash),
     UnitPowerNode(<<1>>),
     UnitPowerNode(CreateParentNode(UnitPowerNode(<<1>>), UnitPowerNode(<<1>>)).hash)}

\* the sum of the stakes, and of the works, of the leaves of the range
RECURSIVE StakeTotal(_, _)
StakeTotal(m, n) ==
    IF n = 0 THEN 0 ELSE Stake(LayerAt(m.layer0, n - 1)) + StakeTotal(m, n - 1)

RECURSIVE WorkTotal(_, _)
WorkTotal(m, n) ==
    IF n = 0 THEN 0 ELSE Work(LayerAt(m.layer0, n - 1)) + WorkTotal(m, n - 1)

\* mmr.Add(node) on a range of the node's type, while the stakes and the
\* works of a range of power nodes add up within their halves
AddNode(node) ==
    /\ MMRSize(MMR) < MaxProofLeaves
    /\ MMRSize(MMR) > 0 => IsPowerNode(LayerAt(layer0, 0)) = IsPowerNode(node)
    /\ IsPowerNode(node) =>
          /\ StakeTotal(MMR, MMRSize(MMR)) + Stake(node) < PowerHalf
          /\ WorkTotal(MMR, MMRSize(MMR)) + Work(node) < PowerHalf
    /\ LET r == MMRAdd(MMR, node)
       IN /\ layer0' = r.mmr.layer0
          /\ upperNodes' = r.mmr.upperNodes
          /\ lastOp' = Call("Add", node, r.ret, FALSE, {})
    /\ leaves' = Append(leaves, node.hash)
    /\ UNCHANGED <<mmv, truncs, chk>>

NextProofs ==
    \/ \E node \in ProofLeaves : AddNode(node)
    \/ \E n \in 0..MaxProofLeaves : NewView(n)
    \/ \E pos \in 0..MaxProofLeaves : DoGetProof(<<>>, pos)

SpecProofs == Init /\ [][NextProofs]_vars

\* a range that grows and is truncated under its view, in any order
NextShared ==
    \/ MMRSize(MMR) < MaxSharedLeaves /\ \E leaf \in LeafHashes : Add(leaf)
    \/ \E n \in 0..MaxSharedLeaves : Truncate(n)
    \/ ViewCalls(MaxSharedLeaves + 1)

SpecShared == Init /\ [][NextShared]_vars

\* the same, the caller truncating to newSize only when no live view is larger
NextDisciplined ==
    \/ MMRSize(MMR) < MaxSharedLeaves /\ \E leaf \in LeafHashes : Add(leaf)
    \/ \E n \in 0..MaxSharedLeaves :
          (mmv.live => ViewSize(mmv) <= n) /\ Truncate(n)
    \/ ViewCalls(MaxSharedLeaves + 1)

SpecDisciplined == Init /\ [][NextDisciplined]_vars

(***************************************************************************)
(* The read path of CMMRProof::SerializationOp.  A stream is the count (if *)
(* the stream is long enough to hold it) and the branches that follow,     *)
(* each a tag and a body that is whole or cut short by the end of stream.  *)
(* A body starts with the branchType byte its class serializes first.      *)
(***************************************************************************)
\* the tags the switch of the read path has a case for
KnownBranchTypes ==
    {BRANCH_BTC, BRANCH_MMRBLAKE_NODE, BRANCH_MMRBLAKE_POWERNODE, BRANCH_ETH,
     BRANCH_MULTIPART}

\* the tags a stream may hold: the known ones, BRANCH_INVALID and one past BRANCH_LAST
StreamTags == {BRANCH_INVALID, BRANCH_BTC, BRANCH_MMRBLAKE_NODE, BRANCH_MULTIPART,
               BRANCH_MULTIPART + 1}

\* the values of the branchType byte at the start of a serialized body
BodyTypes == {BRANCH_BTC, BRANCH_MMRBLAKE_NODE}

\* a serialized branch: its tag, the branchType byte its body starts with and
\* whether its body is all in the stream
StreamItems == [tag : StreamTags, branchType : BodyTypes, whole : BOOLEAN]

\* the object the read path allocates for a tag and reads a body into: class
\* is the concrete class that was constructed, branchType the field of
\* CMerkleBranchBase, which the body's first byte is read into
ReadObject(tag, branchType) ==
    [class |-> tag, branchType |-> branchType, nIndex |-> 0, nSize |-> 0,
     branch |-> <<>>]

\* the streams: with or without a readable count, the count announced, and
\* the serialized branches that follow it
Streams ==
    [hasCount : BOOLEAN,
     proofSize : -1..(MaxStreamBranches + 1),
     items : UNION {[1..n -> StreamItems] : n \in 0..MaxStreamBranches}]

\* CMMRProof::DeleteProofSequence
DeleteProofSequence(proofSequence) == <<>>

\* the for loop of the read path from branch i on: the branches pushed and
\* whether error was set
RECURSIVE ReadLoop(_, _, _)
ReadLoop(s, i, proofSequence) ==
    IF i < s.proofSize
    THEN IF i >= Len(s.items)
         THEN [proofSequence |-> proofSequence, error |-> TRUE]
         ELSE LET item == s.items[i + 1]
              IN IF item.tag \in KnownBranchTypes
                 THEN IF item.whole
                      THEN ReadLoop(s, i + 1,
                               Append(proofSequence,
                                      ReadObject(item.tag, item.branchType)))
                      ELSE [proofSequence |-> proofSequence, error |-> TRUE]
                 ELSE [proofSequence |-> proofSequence, error |-> TRUE]
    ELSE [proofSequence |-> proofSequence, error |-> FALSE]

\* a read path that keeps what it read when error is set
SerializationOpRead_KeepsRead(proofSequence, s) ==
    IF ~s.hasCount
    THEN [proofSequence |-> proofSequence, thrown |-> TRUE]
    ELSE [proofSequence |-> ReadLoop(s, 0, DeleteProofSequence(proofSequence)).proofSequence,
          thrown |-> FALSE]

\* CMMRProof::SerializationOp, ser_action.ForRead(): the proofSequence after
\* the call and whether the call threw (the count itself could not be read)
SerializationOpRead(proofSequence, s) ==
    IF ~s.hasCount
    THEN [proofSequence |-> proofSequence, thrown |-> TRUE]
    ELSE LET r == ReadLoop(s, 0, DeleteProofSequence(proofSequence))
         IN [proofSequence |-> IF r.error
                               THEN DeleteProofSequence(r.proofSequence)
                               ELSE r.proofSequence,
             thrown |-> FALSE]

\* a proof object and a stream about to be read into it
InitSerialization ==
    /\ layer0 = CChunkedLayer
    /\ upperNodes = <<>>
    /\ leaves = <<>>
    /\ mmv = NoView
    /\ truncs = 0
    /\ chk = NoCheck
    /\ \E proofSequence \in InputProofs, s \in Streams :
          lastOp = [Call("Stream", [proof |-> proofSequence, s |-> s], 0, FALSE, {})
                       EXCEPT !.proof = proofSequence]

\* s >> proof
Unserialize ==
    /\ lastOp.name = "Stream"
    /\ LET r == SerializationOpRead(lastOp.proof, lastOp.arg.s)
       IN lastOp' = [Call("Unserialize", lastOp.arg, 0, r.thrown, {})
                        EXCEPT !.proof = r.proofSequence]
    /\ UNCHANGED <<layer0, upperNodes, leaves, mmv, truncs, chk>>

NextSerialization == Unserialize

SpecSerialization == InitSerialization /\ [][NextSerialization]_vars

(***************************************************************************)
(* The write path of CMMRProof::SerializationOp and the read path on what  *)
(* it wrote.  A stream is the sequence of the fields that were written,    *)
(* each with the encoding READWRITE gave it and its value.                 *)
(***************************************************************************)
\* a field of a stream: its encoding and its value
Field(f, v) == [f |-> f, v |-> v]

\* CPATRICIABranch with its members as numbers
CPATRICIABranch(a) ==
    [branchType |-> BRANCH_ETH, proofdata |-> a, address |-> a + 1, balance |-> a + 2,
     codeHash |-> a + 3, nonce |-> a + 4, storageHash |-> a + 5,
     storageProofKey |-> a + 6, storageProof |-> a + 7]

\* CMultiPartProof(type, vec)
CMultiPartProof(type, vec) == [branchType |-> type, vch |-> vec]

\* the members SerializationOp of the class of a tag reads or writes, in
\* order, each with its encoding; every class starts with the branchType of
\* CMerkleBranchBase
BranchFields(type) ==
    CASE type = BRANCH_BTC ->
            <<Field("uint8", "branchType"), Field("VARINT", "nIndex"),
              Field("vector<uint256>", "branch")>>
      [] type \in {BRANCH_MMRBLAKE_NODE, BRANCH_MMRBLAKE_POWERNODE} ->
            <<Field("uint8", "branchType"), Field("VARINT", "nIndex"),
              Field("VARINT", "nSize"), Field("vector<uint256>", "branch")>>
      [] type = BRANCH_ETH ->
            <<Field("uint8", "branchType"), Field("CRLPProof", "proofdata"),
              Field("uint160", "address"), Field("uint256", "balance"),
              Field("uint256", "codeHash"), Field("VARINT", "nonce"),
              Field("uint256", "storageHash"), Field("uint256", "storageProofKey"),
              Field("CRLPProof", "storageProof")>>
      [] type = BRANCH_MULTIPART ->
            <<Field("uint8", "branchType"), Field("vector<unsigned char>", "vch")>>
      [] OTHER -> <<>>

\* the object each case of the read path constructs before it reads into it
DefaultBranch(type) ==
    CASE type = BRANCH_BTC -> CMerkleBranch(0, <<>>)
      [] type \in {BRANCH_MMRBLAKE_NODE, BRANCH_MMRBLAKE_POWERNODE} ->
            CMMRBranch(BRANCH_INVALID, 0, 0, <<>>)
      [] type = BRANCH_ETH -> [CPATRICIABranch(0) EXCEPT !.branchType = BRANCH_ETH]
      [] OTHER -> CMultiPartProof(BRANCH_MULTIPART, <<>>)

\* READWRITE(*(C *)pProof) when writing: the members of the branch as fields
WriteBranch(b) ==
    LET fs == BranchFields(b.branchType)
    IN [k \in 1..Len(fs) |-> Field(fs[k].f, b[fs[k].v])]

\* the for loop of a write path that does not write the tag before each branch
RECURSIVE WriteLoop_NoTag(_, _, _)
WriteLoop_NoTag(proofSequence, i, wire) ==
    IF i <= Len(proofSequence)
    THEN LET pProof == proofSequence[i]
         IN IF pProof.branchType \in KnownBranchTypes
            THEN WriteLoop_NoTag(proofSequence, i + 1, wire \o WriteBranch(pProof))
            ELSE [wire |-> wire, aborted |-> TRUE]
    ELSE [wire |-> wire, aborted |-> FALSE]

\* the for loop of the write path from branch i (from 1) on: what is written
\* and whether assert(!error) failed
RECURSIVE WriteLoop(_, _, _)
WriteLoop(proofSequence, i, wire) ==
    IF i <= Len(proofSequence)
    THEN LET pProof == proofSequence[i]
             tagged == Append(wire, Field("uint8", pProof.branchType))
         IN IF pProof.branchType \in KnownBranchTypes
            THEN WriteLoop(proofSequence, i + 1, tagged \o WriteBranch(pProof))
            ELSE [wire |-> tagged, aborted |-> TRUE]
    ELSE [wire |-> wire, aborted |-> FALSE]

\* CMMRProof::SerializationOp, writing: int32_t proofSize, then the branches
SerializationOpWrite(proofSequence) ==
    WriteLoop(proofSequence, 1, <<Field("int32", Len(proofSequence))>>)

\* the field at pos (from 1) is there and has the encoding asked for; a read
\* that finds otherwise throws
CanRead(wire, pos, f) == pos <= Len(wire) /\ wire[pos].f = f

\* READWRITE(*pBranch) when reading: the object constructed for the tag with
\* the members read from the fields at pos on
ReadBranch(type, wire, pos) ==
    LET fs == BranchFields(type)
        dflt == DefaultBranch(type)
    IN [m \in DOMAIN dflt |->
           IF \E k \in 1..Len(fs) : fs[k].v = m
           THEN wire[pos + (CHOOSE k \in 1..Len(fs) : fs[k].v = m) - 1].v
           ELSE dflt[m]]

\* the for loop of the read path over the fields of a stream, from branch i
\* at field pos on: the branches pushed, whether error was set and the
\* position reached
RECURSIVE ReadWireLoop(_, _, _, _, _)
ReadWireLoop(wire, pos, i, proofSize, proofSequence) ==
    IF i < proofSize
    THEN IF ~CanRead(wire, pos, "uint8")
         THEN [proofSequence |-> proofSequence, error |-> TRUE, pos |-> pos]
         ELSE LET branchType == wire[pos].v
                  fs == BranchFields(branchType)
              IN IF branchType \notin KnownBranchTypes
                 THEN [proofSequence |-> proofSequence, error |-> TRUE, pos |-> pos + 1]
                 ELSE IF \A k \in 1..Len(fs) : CanRead(wire, pos + k, fs[k].f)
                      THEN ReadWireLoop(wire, pos + 1 + Len(fs), i + 1, proofSize,
                               Append(proofSequence, ReadBranch(branchType, wire, pos + 1)))
                      ELSE [proofSequence |-> proofSequence, error |-> TRUE,
                            pos |-> pos + 1]
    ELSE [proofSequence |-> proofSequence, error |-> FALSE, pos |-> pos]

\* CMMRProof::SerializationOp, reading the fields of a stream: the
\* proofSequence after the call, whether the call threw and the number of
\* fields consumed
SerializationOpReadWire(proofSequence, wire) ==
    IF ~CanRead(wire, 1, "int32")
    THEN [proofSequence |-> proofSequence, thrown |-> TRUE, consumed |-> 0]
    ELSE LET r == ReadWireLoop(wire, 2, 0, wire[1].v, DeleteProofSequence(proofSequence))
         IN [proofSequence |-> IF r.error
                               THEN DeleteProofSequence(r.proofSequence)
                               ELSE r.proofSequence,
             thrown |-> FALSE, consumed |-> r.pos - 1]

\* the branches of the proofs that are written: one of each class with a
\* case in the switch, and a default-constructed CMMRNodeBranch
WireBranches ==
    {CMerkleBranch(1, <<<<1>>>>),
     CMerkleBranch(2, <<<<1>>, <<2>>>>),
     CMMRBranch(BRANCH_MMRBLAKE_NODE, 2, 1, <<<<1>>>>),
     CMMRBranch(BRANCH_MMRBLAKE_NODE, 3, 2, <<>>),
     CMMRBranch(BRANCH_MMRBLAKE_POWERNODE, 2, 0, <<<<1>>, <<2>>>>),
     CPATRICIABranch(1),
     CMultiPartProof(BRANCH_MULTIPART, <<1, 2>>),
     CMMRBranch(BRANCH_INVALID, 0, 0, <<>>)}

\* the proofs that are written
WireProofs == UNION {[1..n -> WireBranches] : n \in 0..MaxStreamBranches}

\* a proof about to be written
InitWire ==
    /\ layer0 = CChunkedLayer
    /\ upperNodes = <<>>
    /\ leaves = <<>>
    /\ mmv = NoView
    /\ truncs = 0
    /\ chk = NoCheck
    /\ \E proofSequence \in WireProofs :
          lastOp = [Call("Proof", [proof |-> proofSequence], <<>>, FALSE, {})
                       EXCEPT !.proof = proofSequence]

\* s << proof
Serialize ==
    /\ lastOp.name = "Proof"
    /\ LET w == SerializationOpWrite(lastOp.proof)
       IN lastOp' = [Call("Serialize", lastOp.arg, w.wire, w.aborted, {})
                        EXCEPT !.proof = lastOp.proof]
    /\ UNCHANGED <<layer0, upperNodes, leaves, mmv, truncs, chk>>

\* s >> read, read a new CMMRProof and s the stream that was written
Deserialize ==
    /\ lastOp.name = "Serialize" /\ ~lastOp.aborted
    /\ LET r == SerializationOpReadWire(<<>>, lastOp.ret)
       IN lastOp' = [Call("Deserialize",
                          [proof |-> lastOp.arg.proof, wire |-> lastOp.ret],
                          r.consumed, r.thrown, {})
                        EXCEPT !.proof = r.proofSequence]
    /\ UNCHANGED <<layer0, upperNodes, leaves, mmv, truncs, chk>>

NextWire == Serialize \/ Deserialize

SpecWire == InitWire /\ [][NextWire]_vars

(***************************************************************************)
(* SafeCheck on its own: a branch and a starting hash are drawn, and the   *)
(* branch is replayed.                                                     *)
(***************************************************************************)
\* the hashes of the branches handed to SafeCheck
CheckHashes == {<<1>>, <<2>>, Hash(<<1>>, <<2>>)}

\* the sibling lists: every list of at most MaxBranchLen hashes
CheckBranches == UNION {[1..n -> CheckHashes] : n \in 0..MaxBranchLen}

\* the branches handed to SafeCheck
InitCheck ==
    /\ layer0 = CChunkedLayer
    /\ upperNodes = <<>>
    /\ leaves = <<>>
    /\ mmv = NoView
    /\ lastOp = Call("Init", 0, 0, FALSE, {})
    /\ truncs = 0
    /\ \E b \in CheckBranches, h \in CheckHashes :
          \/ \E i \in 0..(Pow2(MaxBranchLen) - 1) \cup {UINT32_MAX} :
                chk = [kind |-> "btc", b |-> CMerkleBranch(i, b), hash |-> h,
                       done |-> FALSE, result |-> NullHash]
          \/ \E size \in 1..MaxLeaves, i \in 0..MaxLeaves :
                chk = [kind |-> "mmr",
                       b |-> CMMRBranch(BRANCH_MMRBLAKE_NODE, size, i, b), hash |-> h,
                       done |-> FALSE, result |-> NullHash]

\* CBTCMerkleBranch::SafeCheck(hash)
CheckMerkleBranch ==
    /\ chk.kind = "btc" /\ ~chk.done
    /\ chk' = [chk EXCEPT !.done = TRUE, !.result = MerkleBranchSafeCheck(chk.b, chk.hash)]
    /\ UNCHANGED <<layer0, upperNodes, leaves, mmv, lastOp, truncs>>

\* CMMRNodeBranch::SafeCheck(hash)
CheckMMRBranch ==
    /\ chk.kind = "mmr" /\ ~chk.done
    /\ chk' = [chk EXCEPT !.done = TRUE, !.result = MMRBranchSafeCheck(chk.b, chk.hash)]
    /\ UNCHANGED <<layer0, upperNodes, leaves, mmv, lastOp, truncs>>

NextCheck == CheckMerkleBranch \/ CheckMMRBranch

SpecCheck == InitCheck /\ [][NextCheck]_vars

(***************************************************************************)
(* Concatenation of two Bitcoin-style branches: a and b are drawn, a << b  *)
(* is formed and replayed from a starting hash.                            *)
(***************************************************************************)
\* uint32_t arithmetic: the value modulo 2^w, w the width of the model's uint32_t
U32(x) == x % (UINT32_MAX + 1)

\* operator<< that adds the appended index without shifting it
MerkleBranchConcat_Unshifted(a, append) ==
    [a EXCEPT !.nIndex = U32(a.nIndex + append.nIndex),
              !.branch = a.branch \o append.branch]

\* CMerkleBranch::operator<<(append): nIndex += append.nIndex << branch.size(),
\* then the siblings of append are inserted at the end
MerkleBranchConcat(a, append) ==
    [a EXCEPT !.nIndex = U32(a.nIndex + U32(append.nIndex * Pow2(Len(a.branch)))),
              !.branch = a.branch \o append.branch]

\* the sibling lists of the branches that are concatenated
ConcatBranches == UNION {[1..n -> CheckHashes] : n \in 0..MaxConcatLen}

\* the indexes of the first branch: every index of MaxConcatLen bits and one more
FirstIndexes == 0..Pow2(MaxConcatLen)

\* the indexes of the appended branch: small ones, and ones whose shift
\* leaves 32 bits
AppendedIndexes == 0..3 \cup {(UINT32_MAX + 1) \div 2, UINT32_MAX}

\* two branches and a starting hash
InitConcat ==
    /\ layer0 = CChunkedLayer
    /\ upperNodes = <<>>
    /\ leaves = <<>>
    /\ mmv = NoView
    /\ lastOp = Call("Init", 0, 0, FALSE, {})
    /\ truncs = 0
    /\ \E ba \in ConcatBranches, bb \in ConcatBranches, h \in CheckHashes,
          ia \in FirstIndexes, ib \in AppendedIndexes :
          chk = [kind |-> "concat", a |-> CMerkleBranch(ia, ba),
                 b |-> CMerkleBranch(ib, bb), hash |-> h,
                 cat |-> CMerkleBranch(ia, ba), stage |-> "drawn",
                 result |-> NullHash]

\* a << b
Concatenate ==
    /\ chk.kind = "concat" /\ chk.stage = "drawn"
    /\ chk' = [chk EXCEPT !.cat = MerkleBranchConcat(chk.a, chk.b),
                          !.stage = "concatenated"]
    /\ UNCHANGED <<layer0, upperNodes, leaves, mmv, lastOp, truncs>>

\* (a << b).SafeCheck(hash)
CheckConcatenated ==
    /\ chk.kind = "concat" /\ chk.stage = "concatenated"
    /\ chk' = [chk EXCEPT !.result = MerkleBranchSafeCheck(chk.cat, chk.hash),
                          !.stage = "checked"]
    /\ UNCHANGED <<layer0, upperNodes, leaves, mmv, lastOp, truncs>>

NextConcat == Concatenate \/ CheckConcatenated

SpecConcat == InitConcat /\ [][NextConcat]_vars

(***************************************************************************)
(* CMMRPowerNode: a node with a hash and a power, the power holding stake  *)
(* in its high half and work in its low half.                              *)
(***************************************************************************)
\* the powers of the nodes handed to CreateParentNode: every uint256
Powers == 0..(PowerHalf * PowerHalf - 1)

\* two power nodes
InitPower ==
    /\ layer0 = CChunkedLayer
    /\ upperNodes = <<>>
    /\ leaves = <<>>
    /\ mmv = NoView
    /\ lastOp = Call("Init", 0, 0, FALSE, {})
    /\ truncs = 0
    /\ \E pl \in Powers, pr \in Powers :
          chk = [kind |-> "power", nLeft |-> CMMRPowerNode(<<1>>, pl),
                 nRight |-> CMMRPowerNode(<<2>>, pr), done |-> FALSE,
                 aborted |-> FALSE, parent |-> CMMRPowerNode(NullHash, 0)]

\* nLeft.CreateParentNode(nRight)
CreateParent ==
    /\ chk.kind = "power" /\ ~chk.done
    /\ LET r == PowerCreateParentNode(chk.nLeft, chk.nRight)
       IN chk' = [chk EXCEPT !.done = TRUE, !.aborted = r.aborted,
                             !.parent = IF r.aborted THEN chk.parent ELSE r.node]
    /\ UNCHANGED <<layer0, upperNodes, leaves, mmv, lastOp, truncs>>

NextPower == CreateParent

SpecPower == InitPower /\ [][NextPower]_vars

(***************************************************************************)
(* The wrapper object: Verushash::initialize and Verushash::verushash,     *)
(* called by several threads on the one object the Go package holds.  A    *)
(* thread's steps are the statements of the two functions; the only shared *)
(* memory is the flag initialized, which no lock protects.                 *)
(***************************************************************************)
Threads == 1..MaxThreads

\* the statements between the test of initialized in initialize() and the
\* assignment that follows the block
InitBlock == {"CVerusHash_init", "CVerusHashV2_init", "sodium_init",
              "sodium_init_again", "raise"}

\* thread t is inside the block that runs the initialization routines
InInitBlock(t) == chk.pc[t] \in InitBlock

\* var verusHash = VH.NewVerushash(): one object, initialized = false
InitThreads ==
    /\ layer0 = CChunkedLayer
    /\ upperNodes = <<>>
    /\ leaves = <<>>
    /\ mmv = NoView
    /\ lastOp = Call("Init", 0, 0, FALSE, {})
    /\ truncs = 0
    /\ chk = [kind |-> "threads", initialized |-> FALSE,
              pc |-> [t \in Threads |-> "idle"],
              calls |-> [t \in Threads |-> 0],
              nCVerusHashInit |-> 0, nCVerusHashV2Init |-> 0,
              nSodiumInit |-> 0, nHashes |-> 0,
              hashUninitialized |-> FALSE, hashDuringInit |-> FALSE,
              cleared |-> FALSE, raised |-> FALSE, terminated |-> FALSE]

\* the thread's step, leaving the other variables alone
ThreadStep(t, next) ==
    /\ chk' = [next EXCEPT !.cleared = chk.cleared \/ (chk.initialized /\ ~next.initialized)]
    /\ UNCHANGED <<layer0, upperNodes, leaves, mmv, lastOp, truncs>>

\* verusHash.Verushash(...): if (initialized == false) initialize();
Verushash(t) ==
    /\ chk.kind = "threads" /\ ~chk.terminated
    /\ chk.pc[t] = "idle"
    /\ chk.calls[t] < MaxCalls
    /\ ThreadStep(t, [chk EXCEPT !.calls[t] = @ + 1,
                                 !.pc[t] = IF chk.initialized = FALSE
                                           THEN "initialize" ELSE "verus_hash"])

\* initialize(): if (!initialized) { ... }
Initialize(t) ==
    /\ chk.kind = "threads" /\ ~chk.terminated
    /\ chk.pc[t] = "initialize"
    /\ ThreadStep(t, [chk EXCEPT !.pc[t] = IF ~chk.initialized
                                           THEN "CVerusHash_init" ELSE "set"])

\* CVerusHash::init();
CVerusHashInit(t) ==
    /\ chk.kind = "threads" /\ ~chk.terminated
    /\ chk.pc[t] = "CVerusHash_init"
    /\ ThreadStep(t, [chk EXCEPT !.nCVerusHashInit = @ + 1,
                                 !.pc[t] = "CVerusHashV2_init"])

\* CVerusHashV2::init();
CVerusHashV2Init(t) ==
    /\ chk.kind = "threads" /\ ~chk.terminated
    /\ chk.pc[t] = "CVerusHashV2_init"
    /\ ThreadStep(t, [chk EXCEPT !.nCVerusHashV2Init = @ + 1,
                                 !.pc[t] = "sodium_init"])

\* if (sodium_init() == -1): the library call fails or not
SodiumInit(t) ==
    /\ chk.kind = "threads" /\ ~chk.terminated
    /\ chk.pc[t] = "sodium_init"
    /\ \E failed \in BOOLEAN :
          ThreadStep(t, [chk EXCEPT !.nSodiumInit = @ + 1,
                                    !.pc[t] = IF failed THEN "sodium_init_again"
                                              ELSE "set"])

\* the second try: if (sodium_init() == -1) { cout << ...; raise(SIGINT); }
SodiumInitAgain(t) ==
    /\ chk.kind = "threads" /\ ~chk.terminated
    /\ chk.pc[t] = "sodium_init_again"
    /\ \E failed \in BOOLEAN :
          ThreadStep(t, [chk EXCEPT !.pc[t] = IF failed THEN "raise" ELSE "set"])

\* raise(SIGINT): the signal ends the process, or a handler takes it and the
\* call returns
RaiseSigint(t) ==
    /\ chk.kind = "threads" /\ ~chk.terminated
    /\ chk.pc[t] = "raise"
    /\ \E ends \in BOOLEAN :
          ThreadStep(t, [chk EXCEPT !.raised = TRUE, !.terminated = ends,
                                    !.pc[t] = IF ends THEN "raise" ELSE "set"])

\* initialized = true;
SetInitialized(t) ==
    /\ chk.kind = "threads" /\ ~chk.terminated
    /\ chk.pc[t] = "set"
    /\ ThreadStep(t, [chk EXCEPT !.initialized = TRUE, !.pc[t] = "verus_hash"])

\* verus_hash(ptrResult, bytes, length);
VerusHashCall(t) ==
    /\ chk.kind = "threads" /\ ~chk.terminated
    /\ chk.pc[t] = "verus_hash"
    /\ ThreadStep(t, [chk EXCEPT
          !.nHashes = @ + 1,
          !.hashUninitialized = @ \/ ~chk.initialized,
          !.hashDuringInit = @ \/ (\E u \in Threads \ {t} : InInitBlock(u)),
          !.pc[t] = "idle"])

NextThreads ==
    \E t \in Threads :
        \/ Verushash(t)
        \/ Initialize(t)
        \/ CVerusHashInit(t)
        \/ CVerusHashV2Init(t)
        \/ SodiumInit(t)
        \/ SodiumInitAgain(t)
        \/ RaiseSigint(t)
        \/ SetInitialized(t)
        \/ VerusHashCall(t)

SpecThreads == InitThreads /\ [][NextThreads]_vars

(***************************************************************************)
(* Verushash::verushash_v2b2 behind the Go function VerusHash_V2B2.  A     *)
(* header is scaled to three fields: nVersion and hashPrevBlock of one     *)
(* unit each, and nSolution, a length unit followed by that many units.    *)
(***************************************************************************)
\* the serialized inputs
InputBytes == UNION {[1..n -> 0..MaxByte] : n \in 0..MaxHeaderBytes}

\* nVersion of a header hashed with the second algorithm
VERUS_V2 == 2

\* the solution version from which a solution carries a PBaaS header
ACTIVATE_PBAAS_HEADER == 1

\* memcpy(ptrResult, &result, 32) and make([]byte, 32)
HASH_BYTES == 32

\* s >> bh: the fields in order; a field the stream is too short for throws
UnserializeHeader(bytes) ==
    IF Len(bytes) < 3 \/ Len(bytes) < 3 + bytes[3]
    THEN [thrown |-> "std::ios_base::failure",
          bh |-> [nVersion |-> 0, hashPrevBlock |-> NullHash, nSolution |-> <<>>]]
    ELSE [thrown |-> "none",
          bh |-> [nVersion |-> bytes[1],
                  hashPrevBlock |-> IF bytes[2] = 0 THEN NullHash ELSE Uint256(bytes[2]),
                  nSolution |-> SubSeq(bytes, 4, 3 + bytes[3])]]

\* CConstVerusSolutionVector::Version(nSolution)
Version(nSolution) == IF Len(nSolution) = 0 THEN 0 ELSE nSolution[1]

\* CConstVerusSolutionVector::HasPBaaSHeader(nSolution)
HasPBaaSHeader(nSolution) ==
    IF Version(nSolution) >= ACTIVATE_PBAAS_HEADER THEN 1 ELSE 0

\* CBlockHeader::CheckNonCanonicalData(): the pre-header hash the solution
\* stores is the one computed from the header
CheckNonCanonicalData(bh) ==
    Len(bh.nSolution) > 0 /\ bh.nSolution[1] = MaxByte

\* bh.ClearNonCanonicalData()
ClearNonCanonicalData(bh) == [bh EXCEPT !.hashPrevBlock = NullHash]

\* the three hashes of a header
SerializeHash(bh) == <<"SerializeHash", bh, 0>>

SerializeVerusHash(bh) == <<"SerializeVerusHash", bh, 0>>

SerializeVerusHashV2b(bh, solutionVersion) ==
    <<"SerializeVerusHashV2b", bh, solutionVersion>>

\* CBlockHeader::GetVerusV2Hash
GetVerusV2Hash(bh) ==
    IF bh.hashPrevBlock = NullHash
    THEN SerializeHash(bh)
    ELSE IF bh.nVersion = VERUS_V2
         THEN LET solutionVersion == Version(bh.nSolution)
                  pbaasType == HasPBaaSHeader(bh.nSolution)
              IN IF pbaasType # 0 /\ CheckNonCanonicalData(bh)
                 THEN SerializeVerusHashV2b(ClearNonCanonicalData(bh), solutionVersion)
                 ELSE SerializeVerusHashV2b(bh, solutionVersion)
         ELSE SerializeVerusHash(bh)

\* catch(const std::exception& e)
StdExceptions == {"std::ios_base::failure"}

\* the try block without its handler: what is thrown leaves the function
TryHash_NoCatch(bytes) ==
    LET d == UnserializeHeader(bytes)
    IN IF d.thrown = "none"
       THEN [result |-> GetVerusV2Hash(d.bh), propagated |-> FALSE]
       ELSE [result |-> NullHash, propagated |-> TRUE]

\* uint256 result; try { s >> bh; result = bh.GetVerusV2Hash(); } catch ... {}
TryHash(bytes) ==
    LET d == UnserializeHeader(bytes)
    IN IF d.thrown = "none"
       THEN [result |-> GetVerusV2Hash(d.bh), propagated |-> FALSE]
       ELSE [result |-> NullHash, propagated |-> d.thrown \notin StdExceptions]

\* hash := make([]byte, 32)
NewHashBuffer == [len |-> HASH_BYTES, written |-> 0, value |-> NullHash]

\* the wrapper object before the first call
InitV2b2 ==
    /\ layer0 = CChunkedLayer
    /\ upperNodes = <<>>
    /\ leaves = <<>>
    /\ mmv = NoView
    /\ lastOp = Call("Init", 0, 0, FALSE, {})
    /\ truncs = 0
    /\ chk = [kind |-> "v2b2", initialized |-> FALSE, called |-> FALSE,
              bytes |-> <<>>, hash |-> NewHashBuffer, returned |-> FALSE,
              propagated |-> FALSE, terminated |-> FALSE, raised |-> FALSE]

\* VerusHash_V2B2(serializedHeader): the buffer, the call of verushash_v2b2
\* with initialize() when the flag is not set, and the return of the buffer
VerusHash_V2B2(serializedHeader) ==
    /\ chk.kind = "v2b2" /\ ~chk.terminated
    /\ \E sodiumFails \in BOOLEAN, ends \in BOOLEAN :
          LET raises == ~chk.initialized /\ sodiumFails
              t == TryHash(serializedHeader)
              call == [chk EXCEPT !.called = TRUE, !.bytes = serializedHeader,
                                  !.hash = NewHashBuffer, !.returned = FALSE,
                                  !.propagated = FALSE,
                                  !.raised = chk.raised \/ raises]
          IN IF raises /\ ends
             THEN chk' = [call EXCEPT !.terminated = TRUE]
             ELSE IF t.propagated
                  THEN chk' = [call EXCEPT !.initialized = TRUE, !.propagated = TRUE]
                  ELSE chk' = [call EXCEPT !.initialized = TRUE, !.returned = TRUE,
                                           !.hash = [len |-> HASH_BYTES,
                                                     written |-> 32,
                                                     value |-> t.result]]
    /\ UNCHANGED <<layer0, upperNodes, leaves, mmv, lastOp, truncs>>

NextV2b2 == \E serializedHeader \in InputBytes : VerusHash_V2B2(serializedHeader)

SpecV2b2 == InitV2b2 /\ [][NextV2b2]_vars

(***************************************************************************)
(* Definitions the properties are stated with.                             *)
(***************************************************************************)
\* the range built by appending the leaves ls, in order, to an empty range
RECURSIVE FreshMMR(_)
FreshMMR(ls) ==
    IF Len(ls) = 0
    THEN EmptyMMR
    ELSE MMRAdd(FreshMMR(SubSeq(ls, 1, Len(ls) - 1)), CMMRNode(ls[Len(ls)])).mmr

\* the number of set bits of n
RECURSIVE PopCount(_)
PopCount(n) == IF n = 0 THEN 0 ELSE (n % 2) + PopCount(n \div 2)

\* bit k (from 0) of index
Bit(index, k) == (index \div Pow2(k)) % 2

\* the hash a replay holds after k siblings, each combined on the side its
\* index bit names
RECURSIVE Running(_, _, _, _)
Running(branch, index, hash, k) ==
    IF k = 0
    THEN hash
    ELSE LET r == Running(branch, index, hash, k - 1)
         IN IF Bit(index, k - 1) = 1 THEN Hash(branch[k], r) ELSE Hash(r, branch[k])

\* step k of the replay (from 1) has index bit 1 and a sibling equal to the
\* running hash
NonCanonicalAt(branch, index, hash, k) ==
    /\ Bit(index, k - 1) = 1
    /\ branch[k] = Running(branch, index, hash, k - 1)

\* the replay is canonical: no such step
Canonical(branch, index, hash) ==
    \A k \in 1..Len(branch) : ~NonCanonicalAt(branch, index, hash, k)

\* the hash of leaf pos of the range
LeafHashAt(pos) == LayerAt(layer0, pos).hash

\* the branch GetProof appended to the caller's proof
LastBranch == lastOp.proof[Len(lastOp.proof)]

\* the index SafeCheck replays LastBranch with
LastIndex == GetMMRProofIndex(LastBranch.nIndex, LastBranch.nSize, GetExtraHashCount)

\* the height and the position at which the walk of GetProof from pos of height
\* l leaves the mountain: the peak of the mountain that holds the leaf
RECURSIVE PeakOf(_, _, _)
PeakOf(sizes, p, l) ==
    IF p % 2 = 1 \/ sizes[l + 1] > p + 1
    THEN PeakOf(sizes, p \div 2, l + 1)
    ELSE [l |-> l, p |-> p]

\* the scan for the peak of leaf pos by its hash stops at that peak: no peak
\* listed before it has the same hash
PeakScanExact(pos) ==
    LET pk == PeakOf(mmv.sizes, pos, 0)
    IN PeakSearch(mmv.peaks, GetNode(MMR, pk.l, pk.p).hash, 0)
          = PeakIndexSearch(PeakIndexesLoop(mmv.sizes, 0, <<>>), pk.l, 0)

\* the last call was GetProof with a position inside the view
ProofInRange ==
    /\ lastOp.name = "GetProof"
    /\ lastOp.arg.pos < ViewSize(mmv)

\* what C1 asks of a proof: GetProof returned true and the replay of its
\* branch from the leaf's hash yields the root of the view
RoundTrip ==
    /\ lastOp.ret = TRUE
    /\ ~lastOp.aborted
    /\ MMRBranchSafeCheck(LastBranch, LeafHashAt(lastOp.arg.pos)) = GetRoot(mmv, MMR).root

C2_AddIndex ==
    /\ MMRSize(MMR) = Len(leaves)
    /\ lastOp.name = "Add" => lastOp.ret = Len(leaves) - 1

\* the fifth Add returned 4
C2_Witness == lastOp.name = "Add" /\ lastOp.ret = 4 /\ MMRSize(MMR) = 5

(***************************************************************************)
(* C3, C4: Truncate, and the range as a function of its leaves.            *)
(***************************************************************************)
\* the heights and indexes GetNode is observed at: every layer a range of
\* MaxLeaves leaves has and one above, every index and one past the end
ObservedHeights == 0..4
ObservedIndexes == 0..(MaxLeaves + 1)

\* GetNode agrees on m1 and m2 at every height and index
SameNodes(m1, m2) ==
    \A h \in ObservedHeights, i \in ObservedIndexes : GetNode(m1, h, i) = GetNode(m2, h, i)

\* the root of a view of the whole of m
RootOf(m) == GetRoot(CMerkleMountainView(m, 0), m).root

\* m1 and m2 cannot be told apart: size(), GetNode and View(size).GetRoot()
SameObservable(m1, m2) ==
    /\ MMRSize(m1) = MMRSize(m2)
    /\ SameNodes(m1, m2)
    /\ RootOf(m1) = RootOf(m2)

\* this step is a call of Truncate
TruncateStep == lastOp'.name = "Truncate" /\ truncs' = truncs + 1

\* C3, as stated: Truncate(k) with k >= size() changes nothing; with
\* k < size() it leaves size() = k and every GetNode(h, i) equal to that of a
\* fresh range built from the first k leaves, and a second Truncate(k) changes
\* nothing further.
C3_Truncate ==
    [][TruncateStep =>
          LET k == lastOp'.arg
          IN IF k >= MMRSize(MMR)
             THEN MMR' = MMR
             ELSE /\ MMRSize(MMR') = k
                  /\ SameNodes(MMR', FreshMMR(SubSeq(leaves, 1, k)))
                  /\ MMRTruncate(MMR', k) = MMR']_vars

\* C3 holds of every Truncate of a range that still agrees with its leaves:
\* it fails only after a Truncate across a chunk boundary followed by an Add (C4)
C3_TruncateOfSoundRange ==
    [][(TruncateStep /\ SameObservable(MMR, FreshMMR(leaves))) =>
          LET k == lastOp'.arg
          IN IF k >= MMRSize(MMR)
             THEN MMR' = MMR
             ELSE /\ MMRSize(MMR') = k
                  /\ SameNodes(MMR', FreshMMR(SubSeq(leaves, 1, k)))
                  /\ MMRTruncate(MMR', k) = MMR']_vars

\* C4, as stated: the observable state of the range is a function of its
\* leaves: whatever Adds and Truncates led to them, size(), GetNode(h, i) and
\* View(size).GetRoot() are those of a fresh range built from the same leaves;
\* after Truncate(k) then Add(x) the leaf at index k is x.
C4_FunctionOfLeaves == SameObservable(MMR, FreshMMR(leaves))

(***************************************************************************)
(* C5: appends and a historical view.                                      *)
(***************************************************************************)
\* the view with nothing memoized
Unmemoized(v) == [v EXCEPT !.peaks = <<>>, !.peakMerkle = <<>>]

\* the nodes a call read lie inside the view: index < sizes[height]
ReadsInsideView ==
    \A r \in lastOp.reads : r[1] < Len(mmv.sizes) /\ r[2] < mmv.sizes[r[1] + 1]

\* C5: in a range that only grows, a view of size k returns the root and the
\* sibling lists it would have computed on the range as it was with exactly k
\* leaves, however many leaves were appended since, and GetRoot and GetProof
\* read no node at an index >= sizes[height].
C5_AppendsKeepView ==
    /\ mmv.live =>
          LET k == ViewSize(mmv)
              old == FreshMMR(SubSeq(leaves, 1, k))
              v0 == Unmemoized(mmv)
          IN /\ GetRoot(mmv, MMR).root = GetRoot(v0, old).root
             /\ \A pos \in 0..(k - 1) :
                   GetProof(mmv, MMR, <<>>, pos).proof = GetProof(v0, old, <<>>, pos).proof
    /\ lastOp.name \in {"GetRoot", "GetProof"} => ReadsInsideView

\* a proof of the last leaf of a view of size 3, computed when the range has 6 leaves
C5_Witness ==
    /\ lastOp.name = "GetProof"
    /\ lastOp.arg.pos = 2
    /\ ViewSize(mmv) = 3
    /\ MMRSize(MMR) = 6
    /\ lastOp.ret = TRUE
    /\ lastOp.reads # {}

(***************************************************************************)
(* C6: GetRoot reduces the peaks.                                          *)
(***************************************************************************)
\* the layer above layer: elements 2i and 2i+1 combined, left first, and the
\* last element of an odd layer carried unchanged
PairUp(layer) ==
    [i \in 1..((Len(layer) + 1) \div 2) |->
        IF 2 * i <= Len(layer)
        THEN CMMRNode(Hash(layer[2 * i - 1].hash, layer[2 * i].hash))
        ELSE layer[2 * i - 1]]

\* the single node the layers reduce to
RECURSIVE Reduce(_)
Reduce(layer) == IF Len(layer) <= 1 THEN layer ELSE Reduce(PairUp(layer))

\* C6: GetRoot on a view of size N > 0 returns the hash of the node the peaks
\* reduce to, layer by layer, pairs combined left first and the last element
\* of an odd layer carried unchanged; on an empty view it returns the null hash.
C6_RootIsReduction ==
    lastOp.name = "GetRoot" =>
        lastOp.ret = IF ViewSize(mmv) = 0
                     THEN NullHash
                     ELSE Reduce(mmv.peaks)[1].hash

\* the root of a view with three peaks: a pair and a carried peak
C6_Witness ==
    /\ lastOp.name = "GetRoot"
    /\ Len(mmv.peaks) = 3
    /\ lastOp.ret = Hash(Hash(mmv.peaks[1].hash, mmv.peaks[2].hash), mmv.peaks[3].hash)

(***************************************************************************)
(* C7: the number of peaks.                                                *)
(***************************************************************************)
\* C7, as stated: after CalcPeaks, memoized or forced, on a view of any size
\* N >= 0 the number of peaks is the number of set bits of N.
C7_PeakCount ==
    lastOp.name \in {"CalcPeaks", "GetPeaks"} => Len(mmv.peaks) = PopCount(ViewSize(mmv))

(***************************************************************************)
(* C8: SafeCheck.                                                          *)
(***************************************************************************)
\* the index SafeCheck replays the branch of chk with
CheckIndex ==
    IF chk.kind = "btc"
    THEN chk.b.nIndex
    ELSE GetMMRProofIndex(chk.b.nIndex, chk.b.nSize, GetExtraHashCount)

\* C8: SafeCheck consumes the siblings against the index bits, least significant
\* first: bit 0 gives Hash(running, sibling), bit 1 gives Hash(sibling, running);
\* it returns the final running hash, or the null hash if some step with bit 1
\* has a sibling equal to the running hash.
C8_SafeCheckReplay ==
    chk.done =>
        chk.result = IF Canonical(chk.b.branch, CheckIndex, chk.hash)
                     THEN Running(chk.b.branch, CheckIndex, chk.hash, Len(chk.b.branch))
                     ELSE NullHash

\* a replay of three siblings that is rejected at its second step
C8_Witness ==
    /\ chk.done
    /\ Len(chk.b.branch) = 3
    /\ Bit(CheckIndex, 0) = 0
    /\ NonCanonicalAt(chk.b.branch, CheckIndex, chk.hash, 2)
    /\ chk.result = NullHash

LayerOf(m, h) == IF h = 0 THEN m.layer0 ELSE m.upperNodes[h]

\* C10: in every state reached by Add and Truncate, GetNode(height, index)
\* raises nothing at any height and index: it returns the node stored in the
\* layer when height < height() and index < the layer's size, and a
\* default-constructed node otherwise.
C10_GetNodeTotal ==
    \A h \in ObservedHeights, i \in ObservedIndexes \cup {UINT64_MAX} :
        LET n == GetNode(MMR, h, i)
        IN /\ n # LengthError
           /\ n # Undefined
           /\ IF h < MMRHeight(MMR) /\ i < LayerSize(LayerOf(MMR, h))
              THEN LET L == LayerOf(MMR, h)
                       c == (i \div chunkSize) + 1
                       o == (i % chunkSize) + 1
                   IN /\ c \in DOMAIN L.nodes
                      /\ o \in DOMAIN L.nodes[c]
                      /\ n = L.nodes[c][o]
              ELSE n = DefaultNode

\* GetNode returned a default node for the largest index, after a Truncate
C10_Witness ==
    /\ lastOp.name = "GetNode"
    /\ lastOp.arg.Index = UINT64_MAX
    /\ lastOp.arg.Height = 1
    /\ lastOp.ret = DefaultNode
    /\ truncs > 0
    /\ MMRSize(MMR) = 3

(***************************************************************************)
(* C11: a view and the size of its range.                                  *)
(***************************************************************************)
\* sizes[0] of the view does not exceed the size of the range
WithinRange == mmv.live => ViewSize(mmv) <= MMRSize(MMR)

\* C11, as stated: in every state reached by Add, Truncate, the construction
\* of a view and resize, in any order, a live view has sizes[0] <= mmr.size().
C11_ViewWithinRange == WithinRange

\* this step truncates the range to less than the size of the live view
TruncatesBelowView ==
    /\ mmv.live
    /\ truncs' = truncs + 1
    /\ lastOp'.arg < ViewSize(mmv)

\* C11, amended: the construction of a view and a resize to another size leave
\* sizes[0] <= mmr.size(); every call but a Truncate(k) with k < sizes[0] keeps
\* it so; a Truncate(k) with k < sizes[0] leaves the view larger than the range.
C11_ViewWithinRangeUntilTruncatedBelow ==
    [][/\ lastOp'.name = "NewView" => WithinRange'
       /\ (lastOp'.name = "resize" /\ lastOp'.arg # ViewSize(mmv)) => WithinRange'
       /\ (WithinRange /\ ~TruncatesBelowView) => WithinRange'
       /\ TruncatesBelowView => ~WithinRange']_vars

\* a range of three leaves was truncated to the size of its view, two
C11_Witness ==
    /\ mmv.live
    /\ lastOp.name = "Truncate"
    /\ lastOp.arg = 2
    /\ truncs = 1
    /\ ViewSize(mmv) = 2
    /\ MMRSize(MMR) = 2
    /\ Len(mmv.peakMerkle) > 0

(***************************************************************************)
(* C12: Truncate called only when no live view is larger than the new size.*)
(***************************************************************************)
\* the hash of the leaf the caller appended at pos
AppendedLeafAt(pos) == IF pos < Len(leaves) THEN leaves[pos + 1] ELSE NullHash

\* the nodes the last call read exist in the range as it is now
ReadsInsideRange ==
    \A r \in lastOp.reads :
        /\ r[1] < MMRHeight(MMR)
        /\ r[2] < LayerSize(LayerOf(MMR, r[1]))

\* the branch of the last GetProof replays from the appended leaf to GetRoot()
ReplaysToRoot ==
    /\ lastOp.ret = TRUE
    /\ ~lastOp.aborted
    /\ MMRBranchSafeCheck(LastBranch, AppendedLeafAt(lastOp.arg.pos)) = GetRoot(mmv, MMR).root

\* C12, as stated: when Truncate(k) only runs while no live view has size > k,
\* in every interleaving of Add, Truncate, GetRoot and GetProof each
\* GetProof(pos) replays with SafeCheck from the hash of leaf pos to the same
\* view's GetRoot(), and no read of the view falls outside the range.
C12_DisciplinedRoundTrip ==
    /\ ProofInRange => ReplaysToRoot
    /\ lastOp.name \in {"GetRoot", "GetProof", "GetPeaks"} => ReadsInsideRange

\* C12 restricted to the proofs whose replay is canonical and whose peak is
\* the first with its hash: it still fails, in a range whose layer kept a
\* stale chunk (C4)
C12_CanonicalRoundTrip ==
    (/\ ProofInRange
     /\ lastOp.ret = TRUE /\ ~lastOp.aborted
     /\ Canonical(LastBranch.branch, LastIndex, AppendedLeafAt(lastOp.arg.pos))
     /\ PeakScanExact(lastOp.arg.pos))
        => ReplaysToRoot

\* the reads of the view stay inside the range when Truncate is called so
C12_ReadsInsideRange ==
    lastOp.name \in {"GetRoot", "GetProof", "GetPeaks"} => ReadsInsideRange

(***************************************************************************)
(* C13: GetProofBits and GetProof.                                         *)
(***************************************************************************)
\* the bits GetProofBits gives for the position and the view of the last GetProof
LastBits == GetProofBits(lastOp.arg.pos, ViewSize(mmv), GetExtraHashCount)

\* the sides of the siblings of the last GetProof
LastSides == MountainSides(mmv, MMR, lastOp.arg.pos, 0, <<>>)

\* the bits are the sides of the siblings, one for one
BitsMirrorProof ==
    /\ Len(LastBits) = Len(LastBranch.branch)
    /\ LastBits = LastSides

\* C13, as stated: for every mmvSize >= 1 and every pos < mmvSize, pos = 0
\* included, GetProofBits(pos, mmvSize) has as many entries as GetProof(pos)
\* produces siblings on a view of that size, entry i being 1 exactly when the
\* i-th sibling is combined on the left.
C13_BitsMirrorProof == ProofInRange => BitsMirrorProof

\* the same for pos > 0, when the peak of pos is the first peak with its hash:
\* holds
C13_BitsMirrorProofFromOne ==
    (ProofInRange /\ lastOp.arg.pos > 0 /\ PeakScanExact(lastOp.arg.pos)) => BitsMirrorProof

(***************************************************************************)
(* C14: deserialization of a proof.                                        *)
(***************************************************************************)
\* the stream of the last Unserialize
LastStream == lastOp.arg.s

\* among the branches the count announces, one is missing from the stream,
\* has an unknown tag or is cut short
FailsAmongAnnounced ==
    \E i \in 1..LastStream.proofSize :
        \/ i > Len(LastStream.items)
        \/ LastStream.items[i].tag \notin KnownBranchTypes
        \/ ~LastStream.items[i].whole

RECURSIVE FloorLog2(_)
FloorLog2(n) == IF n <= 1 THEN 0 ELSE 1 + FloorLog2(n \div 2)

CeilLog2(n) == IF Pow2(FloorLog2(n)) = n THEN FloorLog2(n) ELSE FloorLog2(n) + 1

\* C15, as stated: after N Adds to an empty range height() is
\* ceil(log2(N)) + 1 for N > 0 and 0 for N = 0.
C15_HeightCeilLog2 ==
    MMRHeight(MMR) = IF Len(leaves) = 0 THEN 0 ELSE CeilLog2(Len(leaves)) + 1

\* C15, amended: after N Adds to an empty range height() is
\* floor(log2(N)) + 1 for N > 0 and 0 for N = 0.
C15_HeightFloorLog2 ==
    /\ MMRSize(MMR) = Len(leaves)
    /\ MMRHeight(MMR) = IF Len(leaves) = 0 THEN 0 ELSE FloorLog2(Len(leaves)) + 1

\* after the fifth Add the height is 3, where ceil(log2(5)) + 1 is 4
C15_Witness ==
    /\ lastOp.name = "Add"
    /\ Len(leaves) = 5
    /\ MMRHeight(MMR) = 3
    /\ CeilLog2(5) + 1 = 4

(***************************************************************************)
(* C16, C17: the interior layers.                                          *)
(***************************************************************************)
\* C16: after any sequence of Add and Truncate, interior layer h holds
\* size() >> (h + 1) nodes, no interior layer is empty, and there are
\* floor(log2(size())) interior layers when size() >= 1 and none when it is 0.
C16_InteriorLayerSizes ==
    LET N == MMRSize(MMR)
    IN /\ N = Len(leaves)
       /\ Len(upperNodes) = IF N = 0 THEN 0 ELSE FloorLog2(N)
       /\ \A h \in 1..Len(upperNodes) :
             /\ LayerSize(upperNodes[h]) = N \div Pow2(h)
             /\ LayerSize(upperNodes[h]) > 0

\* a range cut from six leaves and grown again to six has layers of 3 and 1
C16_Witness ==
    /\ lastOp.name = "Add"
    /\ truncs = 1
    /\ MMRSize(MMR) = 6
    /\ Len(upperNodes) = 2
    /\ LayerSize(upperNodes[1]) = 3
    /\ LayerSize(upperNodes[2]) = 1
    /\ Len(upperNodes[1].nodes[1]) > chunkSize

\* every interior node is the parent of the two nodes below it, left first
ParentsOfChildren ==
    \A h \in 0..(MMRHeight(MMR) - 2) :
        \A i \in 0..((MMRSize(MMR) \div Pow2(h + 1)) - 1) :
            GetNode(MMR, h + 1, i)
                = CreateParentNode(GetNode(MMR, h, 2 * i), GetNode(MMR, h, 2 * i + 1))

\* C17, as stated: after any sequence of Add and Truncate,
\* GetNode(h+1, i) == GetNode(h, 2i).CreateParentNode(GetNode(h, 2i+1)) for
\* every height h and every i < size() >> (h+1).
C17_ParentsOfChildren == ParentsOfChildren

\* the same until the first Truncate: holds
C17_ParentsOfChildrenBeforeTruncate == truncs = 0 => ParentsOfChildren

(***************************************************************************)
(* C18: the construction of a view.                                        *)
(***************************************************************************)
\* C18: a view constructed with view_size v has size() == v when
\* 1 <= v <= mmr.size() and size() == mmr.size() when v is 0 or exceeds
\* mmr.size(); its sizes satisfy sizes[i+1] == sizes[i] >> 1, every entry after
\* the first is non-zero, and the last entry is 1 whenever size() > 0.
C18_ViewConstruction ==
    lastOp.name = "NewView" =>
        LET v == lastOp.arg
            N == MMRSize(MMR)
            sizes == mmv.sizes
        IN /\ mmv.live
           /\ Len(sizes) >= 1
           /\ ViewSize(mmv) = sizes[1]
           /\ ViewSize(mmv) = IF 1 <= v /\ v <= N THEN v ELSE N
           /\ \A i \in 1..(Len(sizes) - 1) :
                 /\ sizes[i + 1] = sizes[i] \div 2
                 /\ sizes[i + 1] # 0
           /\ ViewSize(mmv) > 0 => sizes[Len(sizes)] = 1

\* a view of size 5 constructed over a range of 7 leaves
C18_Witness ==
    /\ lastOp.name = "NewView"
    /\ lastOp.arg = 5
    /\ MMRSize(MMR) = 7
    /\ mmv.sizes = <<5, 2, 1>>

(***************************************************************************)
(* C19: the peaks.                                                         *)
(***************************************************************************)
\* the heights from h down to 0 whose bit is set in N, the highest first
RECURSIVE SetBitsFrom(_, _)
SetBitsFrom(N, h) ==
    IF h < 0
    THEN <<>>
    ELSE (IF Bit(N, h) = 1 THEN <<h>> ELSE <<>>) \o SetBitsFrom(N, h - 1)

\* C19: after CalcPeaks on a view of size N > 0, peaks lists exactly the nodes
\* GetNode(ht, sizes[ht] - 1) for the heights ht whose bit is set in N, in
\* strictly decreasing order of height: the topmost first, the lowest last.
C19_PeaksByHeight ==
    (lastOp.name \in {"CalcPeaks", "GetPeaks"} /\ ViewSize(mmv) > 0) =>
        LET hs == SetBitsFrom(ViewSize(mmv), FloorLog2(ViewSize(mmv)))
        IN mmv.peaks = [i \in 1..Len(hs) |-> GetNode(MMR, hs[i], mmv.sizes[hs[i] + 1] - 1)]

\* the peaks of a view of size 5, recomputed: heights 2 and 0
C19_Witness ==
    /\ lastOp.name = "CalcPeaks"
    /\ lastOp.arg = TRUE
    /\ ViewSize(mmv) = 5
    /\ MMRSize(MMR) = 7
    /\ mmv.peaks = <<GetNode(MMR, 2, 0), GetNode(MMR, 0, 4)>>

(***************************************************************************)
(* C20: the memoized peaks and peak merkle.                                *)
(***************************************************************************)
\* the view holds its peaks and its peak merkle
Memoized == Len(mmv.peaks) > 0 /\ Len(mmv.peakMerkle) > 0

\* this step is CalcPeaks(true), a resize asked for another size than the
\* view has, or the construction of a view
DiscardsMemo ==
    \/ lastOp'.name = "CalcPeaks" /\ lastOp'.arg = TRUE
    \/ lastOp'.name = "resize" /\ lastOp'.arg # ViewSize(mmv)
    \/ lastOp'.name = "NewView"

\* C20: once a view holds its peaks and peak merkle, GetRoot, GetPeaks,
\* CalcPeaks(false) and GetProof leave both unchanged and GetRoot keeps
\* returning the same hash, whatever Adds and Truncates the range went
\* through; CalcPeaks(true) and a resize to another size discard the peak merkle.
C20_MemoKept ==
    [][Memoized =>
          IF DiscardsMemo
          THEN mmv'.peakMerkle = <<>>
          ELSE /\ mmv'.peaks = mmv.peaks
               /\ mmv'.peakMerkle = mmv.peakMerkle
               /\ GetRoot(mmv', MMR').root = GetRoot(mmv, MMR).root
               /\ lastOp'.name = "GetRoot" => lastOp'.ret = GetRoot(mmv, MMR).root]_vars

\* GetRoot of a view of three leaves returned the memoized root after the
\* range was cut to one leaf
C20_Witness ==
    /\ lastOp.name = "GetRoot"
    /\ truncs = 1
    /\ ViewSize(mmv) = 3
    /\ MMRSize(MMR) = 1
    /\ Memoized
    /\ lastOp.ret = Hash(Hash(<<1>>, <<1>>), <<1>>)

(***************************************************************************)
(* C21: SafeCheck and the sentinel index.                                  *)
(***************************************************************************)
\* the branch of chk holds the sentinel invalid index: the stored nIndex with
\* all bits set for the Bitcoin-style branch, a remapped index of -1 for the
\* MMR branch
SentinelIndex ==
    IF chk.kind = "btc"
    THEN chk.b.nIndex = UINT32_MAX
    ELSE GetMMRProofIndex(chk.b.nIndex, chk.b.nSize, GetExtraHashCount) = -1

\* C21: for both the MMR branch and the Bitcoin-style Merkle branch, SafeCheck
\* returns the null hash, without combining any sibling, whenever the branch's
\* index is the sentinel invalid value.
C21_SentinelReturnsNull ==
    (chk.done /\ SentinelIndex) => chk.result = NullHash

\* what SafeCheck does with the stored index of all bits set: the index is
\* replayed as the number UINT32_MAX, each of its low bits 1
C21_SentinelIsReplayed ==
    (chk.done /\ chk.kind = "btc" /\ chk.b.nIndex = UINT32_MAX) =>
        chk.result = SafeCheckLoop(chk.b.branch, 1, UINT32_MAX, chk.hash)

(***************************************************************************)
(* C22: concatenation of Bitcoin-style branches.                           *)
(***************************************************************************)
\* the index of a fits the siblings of a, and b's index shifted left by the
\* number of a's siblings fits 32 bits
ConcatFits ==
    /\ chk.a.nIndex < Pow2(Len(chk.a.branch))
    /\ chk.b.nIndex * Pow2(Len(chk.a.branch)) <= UINT32_MAX

\* a.SafeCheck(hash) does not fail
FirstCheckPasses == MerkleBranchSafeCheck(chk.a, chk.hash) # NullHash

\* C22: for Bitcoin-style branches a and b with a.nIndex < 2^|a.branch| and no
\* 32-bit overflow of b.nIndex << |a.branch|, (a << b).SafeCheck(h) equals
\* b.SafeCheck(a.SafeCheck(h)) for every h on which a.SafeCheck(h) does not
\* fail, and the siblings of a << b are a's followed by b's.
C22_ConcatIsSequence ==
    (chk.stage = "checked" /\ ConcatFits) =>
        /\ chk.cat.branch = chk.a.branch \o chk.b.branch
        /\ FirstCheckPasses =>
              chk.result = MerkleBranchSafeCheck(chk.b,
                              MerkleBranchSafeCheck(chk.a, chk.hash))

\* two branches of two siblings each, the second with index 3, concatenated
\* and replayed to a hash
C22_Witness ==
    /\ chk.stage = "checked"
    /\ ConcatFits
    /\ FirstCheckPasses
    /\ Len(chk.a.branch) = 2 /\ Len(chk.b.branch) = 2
    /\ chk.a.nIndex = 2 /\ chk.b.nIndex = 3
    /\ chk.cat.nIndex = 14
    /\ chk.result # NullHash

(***************************************************************************)
(* C27: the branchType of the branches a proof holds after it is read.     *)
(***************************************************************************)
\* every branch object of the proof has the branchType of the class it was
\* allocated as
TypedAsAllocated(proofSequence) ==
    \A i \in 1..Len(proofSequence) :
        proofSequence[i].branchType = proofSequence[i].class

\* C27: after a proof is deserialized from any stream, every branch object in
\* proofSequence has a branchType equal to the tag that selected its class.
C27_TypedAsAllocated ==
    (lastOp.name = "Unserialize" /\ ~lastOp.aborted) => TypedAsAllocated(lastOp.proof)

\* what the read path does: the branchType of each object is the first byte
\* of its body in the stream
C27_TypedAsBody ==
    (lastOp.name = "Unserialize" /\ ~lastOp.aborted) =>
        \A i \in 1..Len(lastOp.proof) :
            /\ lastOp.proof[i].class = LastStream.items[i].tag
            /\ lastOp.proof[i].branchType = LastStream.items[i].branchType

(***************************************************************************)
(* C23: the serialized shape of a proof.                                   *)
(***************************************************************************)
\* the fields of a branch after its type bytes: the type-specific fields, the
\* VARINT index, the VARINT size for the MMR family, the sibling hashes
FieldsAfterType(b) ==
    CASE b.branchType = BRANCH_BTC ->
            <<Field("VARINT", b.nIndex), Field("vector<uint256>", b.branch)>>
      [] b.branchType \in {BRANCH_MMRBLAKE_NODE, BRANCH_MMRBLAKE_POWERNODE} ->
            <<Field("VARINT", b.nIndex), Field("VARINT", b.nSize),
              Field("vector<uint256>", b.branch)>>
      [] b.branchType = BRANCH_ETH ->
            <<Field("CRLPProof", b.proofdata), Field("uint160", b.address),
              Field("uint256", b.balance), Field("uint256", b.codeHash),
              Field("VARINT", b.nonce), Field("uint256", b.storageHash),
              Field("uint256", b.storageProofKey), Field("CRLPProof", b.storageProof)>>
      [] OTHER -> <<Field("vector<unsigned char>", b.vch)>>

\* the branches from the i-th on, each as typeBytes branch_type bytes and the
\* fields after them
RECURSIVE BranchesShape(_, _, _)
BranchesShape(proofSequence, i, typeBytes) ==
    IF i > Len(proofSequence)
    THEN <<>>
    ELSE [k \in 1..typeBytes |-> Field("uint8", proofSequence[i].branchType)]
            \o FieldsAfterType(proofSequence[i])
            \o BranchesShape(proofSequence, i + 1, typeBytes)

\* the stream written, the proof it was written from and the proof read back
Written == lastOp.name = "Serialize" /\ ~lastOp.aborted
ReadBack == lastOp.name = "Deserialize"

C26_PeakScanExact == ProofInRange => PeakScanExact(lastOp.arg.pos)

\* what the scan finds: the first peak of the list with the hash of the peak
\* reached, which is the peak reached when the hashes of the peaks differ
C26_PeakScanFirstEqual ==
    ProofInRange =>
        LET pk == PeakOf(mmv.sizes, lastOp.arg.pos, 0)
            peakHash == GetNode(MMR, pk.l, pk.p).hash
            found == PeakSearch(mmv.peaks, peakHash, 0)
        IN /\ found < Len(mmv.peaks)
           /\ mmv.peaks[found + 1].hash = peakHash
           /\ \A q \in 1..found : mmv.peaks[q].hash # peakHash
           /\ (\A q, r \in 1..Len(mmv.peaks) :
                    q # r => mmv.peaks[q].hash # mmv.peaks[r].hash)
                 => PeakScanExact(lastOp.arg.pos)

(***************************************************************************)
(* C28: a view constructed from another view.                              *)
(***************************************************************************)
\* the last call constructed a view from the view with no explicit size
CopyConstructed == lastOp.name = "CopyView" /\ lastOp.arg.viewSize = 0

\* C28: constructing a view from another view without an explicit size yields
\* a view over the same range with the same size() as the source view, even
\* after the range has grown beyond the source view's size.
C28_CopyKeepsSize == CopyConstructed => ViewSize(mmv) = lastOp.arg.source

\* what the constructor does with no explicit size: the new view has the
\* size of the range
C28_CopyTakesRangeSize == CopyConstructed => ViewSize(mmv) = MMRSize(MMR)

(***************************************************************************)
(* C24: the power of a parent of two power nodes.                          *)
(***************************************************************************)
\* the stake and the work a power holds, as numbers
StakeOf(power) == power \div PowerHalf
WorkOf(power) == power % PowerHalf

\* the sums of the stakes and of the works of the two nodes of chk
StakeSum == StakeOf(chk.nLeft.power) + StakeOf(chk.nRight.power)
WorkSum == WorkOf(chk.nLeft.power) + WorkOf(chk.nRight.power)

\* C24: CreateParentNode on two power nodes yields a parent whose stake is
\* stake_left + stake_right and whose work is work_left + work_right, each in
\* its own half with no carry from work into stake, and it aborts whenever
\* either sum does not fit in its half.
C24_ParentPower ==
    chk.done =>
        IF StakeSum < PowerHalf /\ WorkSum < PowerHalf
        THEN /\ ~chk.aborted
             /\ StakeOf(chk.parent.power) = StakeSum
             /\ WorkOf(chk.parent.power) = WorkSum
        ELSE chk.aborted

\* two works that add up to the largest work, and two stakes
C24_Witness ==
    /\ chk.done /\ ~chk.aborted
    /\ WorkOf(chk.nLeft.power) = 3 /\ WorkOf(chk.nRight.power) = PowerHalf - 4
    /\ StakeOf(chk.nLeft.power) = 1 /\ StakeOf(chk.nRight.power) = 2
    /\ chk.parent.power = 3 * PowerHalf + (PowerHalf - 1)
    /\ chk.parent.hash = Hash(Hash(<<1>>, <<2>>), Uint256(chk.parent.power))

(***************************************************************************)
(* C25: the entries of a proof, for power nodes and for plain nodes.       *)
(***************************************************************************)
\* the entries of a pairing step: the sibling's hash and, for power nodes,
\* the power of the parent stored for the pair
PairEntries(sibling, parent) ==
    IF IsPowerNode(sibling)
    THEN <<sibling.hash, Uint256(parent.power)>>
    ELSE <<sibling.hash>>

\* the entries for the pairing steps from position p of layer layerNum of the
\* peak merkle up (layer 0 is peaks): nothing where the last node of a layer
\* of odd size passes through
RECURSIVE PeakPairs(_, _)
PeakPairs(p, layerNum) ==
    LET layer == IF layerNum = 0 THEN mmv.peaks ELSE mmv.peakMerkle[layerNum]
    IN IF Len(layer) <= 1
       THEN <<>>
       ELSE (IF p % 2 = 1
             THEN PairEntries(layer[p], mmv.peakMerkle[layerNum + 1][(p \div 2) + 1])
             ELSE IF p + 1 < Len(layer)
                  THEN PairEntries(layer[p + 2], mmv.peakMerkle[layerNum + 1][(p \div 2) + 1])
                  ELSE <<>>)
            \o PeakPairs(p \div 2, layerNum + 1)

\* the entries for the pairing steps from position p of height l of the
\* range up to the peak of the mountain, then those of the peak merkle from
\* that peak's place in the list of peaks
RECURSIVE MountainPairs(_, _)
MountainPairs(p, l) ==
    IF p % 2 = 1
    THEN PairEntries(GetNode(MMR, l, p - 1), GetNode(MMR, l + 1, p \div 2))
            \o MountainPairs(p \div 2, l + 1)
    ELSE IF mmv.sizes[l + 1] > p + 1
         THEN PairEntries(GetNode(MMR, l, p + 1), GetNode(MMR, l + 1, p \div 2))
                 \o MountainPairs(p \div 2, l + 1)
         ELSE PeakPairs(PeakIndexSearch(PeakIndexesLoop(mmv.sizes, 0, <<>>), l, 0), 0)

\* the entries C25 describes for the proof of leaf pos
ProofEntries(pos) ==
    LET leaf == LayerAt(layer0, pos)
    IN (IF IsPowerNode(leaf) THEN <<Uint256(leaf.power)>> ELSE <<>>)
          \o MountainPairs(pos, 0)

\* C25: for power nodes GetProof(pos) emits the leaf's power once, first,
\* then for every pairing step of the mountain walk and of the peak merkle
\* walk two entries, the sibling's hash and the combined power of the pair,
\* which is the power of the parent stored for the pair, and nothing for
\* pass-through layers; for plain nodes it emits nothing at the start and one
\* entry per pairing step.
C25_ProofEntries ==
    ProofInRange =>
        /\ lastOp.ret = TRUE
        /\ ~lastOp.aborted
        /\ LastBranch.branch = ProofEntries(lastOp.arg.pos)

\* the same for the positions whose peak is the first peak with its hash
C25_ProofEntriesExactScan ==
    (ProofInRange /\ PeakScanExact(lastOp.arg.pos)) =>
        /\ lastOp.ret = TRUE
        /\ ~lastOp.aborted
        /\ LastBranch.branch = ProofEntries(lastOp.arg.pos)

\* a proof of a power leaf through three peaks: the leaf's power, then two
\* entries for the pairing step in the mountain and two for each of the two
\* pairing steps in the peak merkle
C25_PowerProofReached ==
    /\ ProofInRange
    /\ PeakScanExact(lastOp.arg.pos)
    /\ ViewSize(mmv) = 7
    /\ lastOp.arg.pos = 5
    /\ IsPowerNode(LayerAt(layer0, 5))
    /\ LastBranch.branchType = BRANCH_MMRBLAKE_POWERNODE
    /\ Len(LastBranch.branch) = 7
    /\ LastBranch.branch[1] = Uint256(PowerHalf + 1)
    /\ LastBranch.branch[3] = Uint256(2 * (PowerHalf + 1))
    /\ LastBranch.branch[5] = Uint256(6 * (PowerHalf + 1))
    /\ LastBranch.branch[7] = Uint256(7 * (PowerHalf + 1))
    /\ LastBranch.branch = ProofEntries(5)

(***************************************************************************)
(* C29: when several threads call the hash entry points on the one shared  *)
(* object, each of CVerusHash::init, CVerusHashV2::init and the sodium     *)
(* initialization runs at most once, no hash computation starts before the *)
(* flag is set, and the flag, once true, is never cleared.                 *)
(***************************************************************************)
C29_InitializedOnce ==
    chk.kind = "threads" =>
        /\ chk.nCVerusHashInit <= 1
        /\ chk.nCVerusHashV2Init <= 1
        /\ chk.nSodiumInit <= 1
        /\ ~chk.hashUninitialized
        /\ ~chk.cleared

\* the parts of it that hold: a hash starts only with the flag set, and the
\* flag is never cleared
C29_HashAfterFlag ==
    chk.kind = "threads" => (~chk.hashUninitialized /\ ~chk.cleared)

\* every thread runs the routines at most once, so they run at most once per
\* thread
C29_InitializedOncePerThread ==
    chk.kind = "threads" =>
        /\ chk.nCVerusHashInit <= MaxThreads
        /\ chk.nCVerusHashV2Init <= MaxThreads
        /\ chk.nSodiumInit <= MaxThreads

\* one thread hashes while another runs the routines again
C29_HashDuringInitReached ==
    /\ chk.kind = "threads"
    /\ chk.hashDuringInit
    /\ chk.nCVerusHashInit = 2
    /\ ~chk.raised

(***************************************************************************)
(* C30: a call of verushash_v2b2 that the process survives returns with    *)
(* exactly 32 bytes written to the result buffer and nothing thrown; the   *)
(* bytes are zero when the input is too short for a block header, and the  *)
(* header's GetVerusV2Hash otherwise.                                      *)
(***************************************************************************)
\* the input holds the two fixed fields, the length and the solution
DeserializesAsHeader(bytes) == Len(bytes) >= 3 /\ Len(bytes) >= 3 + bytes[3]

C30_HeaderHashed ==
    /\ chk.kind = "v2b2" /\ chk.called /\ chk.returned
    /\ Len(chk.bytes) = 4 /\ chk.bytes[1] = VERUS_V2 /\ chk.bytes[2] = 1
    /\ chk.bytes[3] = 1 /\ chk.bytes[4] = MaxByte
    /\ chk.hash.value[1] = "SerializeVerusHashV2b"
    /\ chk.hash.value[2].hashPrevBlock = NullHash

\* initialization failed twice and the signal ended the process
C30_TerminatedReached ==
    chk.kind = "v2b2" /\ chk.terminated /\ chk.hash.written = 0

====
